---- MODULE Spec2Model ----
(***************************************************************************)
(* Model of the generation pipeline of backend/app/agent:                  *)
(* run_pipeline_generator (orchestrator.py) as a generator that is resumed *)
(* from yield to yield, the review loop it contains, and RepairAgent.run   *)
(* (repair_agent.py) as the awaited steps of the repair stage.             *)
(*                                                                         *)
(* One action is the code that runs between two suspension points of the   *)
(* generator (a yield), or between two awaits inside RepairAgent.run.      *)
(* Calls to collaborators (LLM agents, create_artifact_record, the sandbox *)
(* evaluation) return a nondeterministically chosen result or raise.       *)
(* update_generation_run_status and Session.rollback are modelled by what  *)
(* crud.py and the orchestrator's *_safely helpers do when the call goes   *)
(* through.                                                                *)
(***************************************************************************)
EXTENDS Integers, Sequences, FiniteSets, TLC

VARIABLES
    pc,                  \* where the generator is suspended
    events,              \* statuses of the events yielded so far, in order
    terminal,            \* payload of the terminal event (completed / error)
    faults,              \* exceptions raised so far (history)
    runtime_mode,        \* argument runtime_mode, as passed
    start_stage,         \* argument start_stage, as passed
    charter_override,    \* argument charter_override
    architecture_override, \* argument architecture_override
    run_status,          \* GenerationRun.status of run_id
    session_ops,         \* status updates and rollbacks issued on the session
    artifacts,           \* ArtifactRecords committed for run_id, in order
    charter,             \* local charter
    architecture,        \* local architecture
    code,                \* local code (the current bundle)
    next_bundle_id,      \* identity given to the next bundle produced
    implementer_calls,   \* calls of ImplementerAgent.run
    attempt,             \* loop variable of the review loop
    review,              \* local review (merged report of the current pass)
    last_pass,           \* what the orchestrator did with the latest report
    reviewer_calls,      \* calls of ReviewerAgent.run
    patch_calls,         \* calls of ImplementerAgent.patch_files by the review loop
    review_artifact_for_completion,
    repair_agent_created, \* RepairAgent(...) was constructed
    repair_attempts,     \* RepairAgent.run: repair_attempts
    escalation_attempts, \* RepairAgent.run: escalation_attempts
    repaired,            \* RepairAgent.run: repaired
    affected_files,      \* RepairAgent.run: affected_files
    current_code,        \* RepairAgent.run: current_code
    latest_report,       \* RepairAgent.run: latest_report
    evaluations,         \* calls of RepairAgent.evaluate (sandbox launches)
    last_evaluation,     \* outcome of the latest evaluation and its liveness re-check
    repair_patch_calls,  \* calls of ImplementerAgent.patch_files by the repair loop
    repair_result,       \* RepairReport returned to the orchestrator
    repair_artifact_for_completion,
    repair_pass_index,   \* loop variable of the repair_revision loop
    fn_pc,               \* a function called on its own: "idle", "called", "returned"
    fn_input,            \* its arguments
    fn_output,           \* its result
    deployments,         \* sandbox host: the deployments in progress, per worker
    runtime_infos,       \* sandbox host: .sandbox-runtime.json of each project
    containers,          \* sandbox host: the docker containers that exist
    host_ports,          \* sandbox host: ports bound by other processes
    host_dirs,           \* sandbox host: who wrote the bundle in each project's directory
    allocation,          \* sandbox host: the latest port allocation
    launches             \* sandbox host: calls of _launch_project_sandbox

inputVars == <<runtime_mode, start_stage, charter_override, architecture_override>>
dbVars == <<run_status, session_ops, artifacts>>
stageVars == <<charter, architecture, code, next_bundle_id, implementer_calls>>
reviewVars == <<attempt, review, last_pass, reviewer_calls, patch_calls,
                review_artifact_for_completion>>
repairLoopVars == <<repair_attempts, escalation_attempts, repaired, affected_files,
                    current_code, latest_report, evaluations, last_evaluation,
                    repair_patch_calls>>
repairVars == <<repair_agent_created, repair_attempts, escalation_attempts, repaired,
                affected_files, current_code, latest_report, evaluations,
                last_evaluation, repair_patch_calls, repair_result,
                repair_artifact_for_completion, repair_pass_index>>
vars == <<pc, events, terminal, faults, runtime_mode, start_stage, charter_override,
          architecture_override, run_status, session_ops, artifacts, charter,
          architecture, code, next_bundle_id, implementer_calls, attempt, review,
          last_pass, reviewer_calls, patch_calls, review_artifact_for_completion,
          repair_agent_created, repair_attempts, escalation_attempts, repaired,
          affected_files, current_code, latest_report, evaluations, last_evaluation,
          repair_patch_calls, repair_result,
          repair_artifact_for_completion, repair_pass_index, fn_pc, fn_input,
          fn_output, deployments, runtime_infos, containers, host_ports, host_dirs,
          allocation, launches>>

\* The variables of the pipeline run.
pipelineVars == <<pc, events, terminal, faults, inputVars, dbVars, stageVars, reviewVars,
                  repairVars>>

\* The variables of a function called on its own, outside a pipeline run.
fnVars == <<fn_pc, fn_input, fn_output>>

\* The variables of the sandbox host (app/api/routes/sandbox.py).
sandboxVars == <<deployments, runtime_infos, containers, host_ports, host_dirs,
                 allocation, launches>>

(***************************************************************************)
(* Text arguments.  A string is kept as its lower-case, stripped base      *)
(* together with what .strip() and .lower() remove from it.                *)
(***************************************************************************)
Text(s) == [base |-> s, upper |-> FALSE, padded |-> FALSE]

\* None, or the empty string: what `x or default` replaces.
NoneText == Text("")

Falsy(t) == t.base = "" /\ ~t.padded

OrDefault(t, d) == IF Falsy(t) THEN Text(d) ELSE t

Strip(t) == [t EXCEPT !.padded = FALSE]

Lower(t) == [t EXCEPT !.upper = FALSE]

\* (start_stage or "requirements").strip().lower()
stage_mode(raw) == Lower(Strip(OrDefault(raw, "requirements")))

\* The mode compared as it was passed, neither stripped nor lower-cased.
RuntimeModeAsPassed(raw) == OrDefault(raw, "sandbox")

\* (runtime_mode or "sandbox").strip().lower()
normalized_runtime_mode(raw) == Lower(Strip(OrDefault(raw, "sandbox")))

(***************************************************************************)
(* Program constants.                                                      *)
(***************************************************************************)
MAX_REVIEW_ITERATIONS == 3

REVIEW_TRUST_SCORE_THRESHOLD == 7

MAX_REPAIR_ITERATIONS == 3

ESCALATION_ITERATIONS == 2

\* The implementer's normalized plan always holds these files.
RequiredPaths == {"app/main.py", "app/database.py", "app/models.py",
                  "app/schemas.py", "app/routes.py"}

(***************************************************************************)
(* Inputs the runs are started with.                                       *)
(***************************************************************************)
RunInputs ==
    { [runtime_mode |-> NoneText, start_stage |-> Text("requirements"),
       charter_override |-> FALSE, architecture_override |-> FALSE],
      [runtime_mode |-> Text("local_cli"), start_stage |-> NoneText,
       charter_override |-> FALSE, architecture_override |-> FALSE],
      [runtime_mode |-> [base |-> "local_cli", upper |-> TRUE, padded |-> TRUE],
       start_stage |-> [base |-> "implementer", upper |-> TRUE, padded |-> FALSE],
       charter_override |-> TRUE, architecture_override |-> TRUE],
      [runtime_mode |-> [base |-> "local_cli", upper |-> FALSE, padded |-> TRUE],
       start_stage |-> Text("implementer"),
       charter_override |-> FALSE, architecture_override |-> TRUE],
      [runtime_mode |-> Text("local_cli"), start_stage |-> Text("implementer"),
       charter_override |-> TRUE, architecture_override |-> FALSE],
      [runtime_mode |-> Text("sandbox"), start_stage |-> Text("implementer"),
       charter_override |-> FALSE, architecture_override |-> FALSE],
      [runtime_mode |-> Text("sandbox"), start_stage |-> Text("reviewer"),
       charter_override |-> FALSE, architecture_override |-> FALSE],
      [runtime_mode |-> Text("docker"),
       start_stage |-> [base |-> "", upper |-> FALSE, padded |-> TRUE],
       charter_override |-> FALSE, architecture_override |-> FALSE] }

\* Charters the requirements LLM call can return: entity and endpoint counts.
LLMCharters == [entities : 0..1, endpoints : 0..1]

NoCharter == [entities |-> -1, endpoints |-> -1]

NoBundle == [id |-> 0, paths |-> {}]

NoTerminal == [status |-> "none", message |-> "none", approved |-> FALSE,
               final_code |-> NoBundle, suggestions |-> {}, runtime_mode |-> "",
               artifacts_released |-> FALSE]

NoReviewArtifact == [approved |-> FALSE, security_score |-> 0, final_code |-> NoBundle,
                     suggestions |-> {}, runtime_mode |-> "",
                     artifacts_released |-> FALSE]

NoReview == [approved |-> FALSE, security_score |-> 0, final_code |-> {},
             patch_requests |-> {}, affected_files |-> {}, issue_paths |-> {}]

NoPass == [attempt |-> 0, approved |-> FALSE, security_score |-> 0, outcome |-> "none",
           exit |-> "none", code_replaced |-> FALSE]

NoRepair == [passed |-> FALSE, fully_validated |-> FALSE, repaired |-> FALSE,
             attempts |-> 0, affected_files |-> {}, final_code |-> NoBundle,
             summary |-> "none"]

NoReport == [passed |-> FALSE, failure_path |-> "none"]

(***************************************************************************)
(* Persistence collaborator (crud.py) and the orchestrator's helpers.      *)
(***************************************************************************)
\* update_generation_run_status through _update_run_status_safely: the run row
\* exists (the route creates it before the generator starts), so the status is set.
UpdateRunStatusSafely(ops, status) == Append(ops, [op |-> "update_status", status |-> status])

\* _rollback_session_safely: session.rollback()
RollbackSessionSafely(ops) == Append(ops, [op |-> "rollback", status |-> ""])

\* create_artifact_record: one more ArtifactRecord row; rows are only inserted.
CreateArtifactRecord(rows, stage, n, bundle) ==
    Append(rows, [stage |-> stage, n |-> n, bundle |-> bundle])

\* A handler that yields the error event on a session it did not roll back.
ExceptionHandlerWithoutRollback(ops, fault, earlier) ==
    /\ session_ops' = ops
    /\ events' = Append(events, "error")
    /\ terminal' = [NoTerminal EXCEPT !.status = "error", !.message = fault]
    /\ faults' = faults \cup earlier \cup {fault}
    /\ pc' = "error"

\* A handler that rolls back and marks the run failed, but yields no event.
ExceptionWithoutErrorEvent(ops, fault) ==
    /\ session_ops' = RollbackSessionSafely(ops)
    /\ UNCHANGED <<events, terminal>>
    /\ faults' = faults \cup {fault}
    /\ pc' = "error"

\* except Exception as e (orchestrator.py 505-508), entered with the session
\* operations `ops` issued so far by the running segment: roll the session back
\* and yield the error event.  The status update follows in FinishFailed.
\* `earlier` are the exceptions the segment caught before this one.
PipelineExceptionHandlerAfter(ops, fault, earlier) ==
    /\ session_ops' = RollbackSessionSafely(ops)
    /\ events' = Append(events, "error")
    /\ terminal' = [NoTerminal EXCEPT !.status = "error", !.message = fault]
    /\ faults' = faults \cup earlier \cup {fault}
    /\ pc' = "error"

PipelineExceptionHandler(ops, fault) == PipelineExceptionHandlerAfter(ops, fault, {})

Yield(status) ==
    /\ events' = Append(events, status)
    /\ UNCHANGED terminal

(***************************************************************************)
(* Initial state: the generator object exists and has not been resumed.    *)
(***************************************************************************)
Projects == {"p1", "p2"}

\* generate.py 463, 744: pipeline runs, coroutines of the one event loop
Runs == {"run1", "run2"}

\* The project both pipeline runs work on.
RunProject == "p1"

\* sandbox.py 1717-1740: the deploy routes, plain functions run on the thread pool
Handlers == {"deploy"}

\* The pipeline runs and request handlers that deploy at the same time.
Workers == Runs \cup Handlers

\* sandbox.py 116-124: _read_runtime_info returns None
NoRuntimeInfo == [present |-> FALSE, container_name |-> 0, port |-> 0]

NoAllocation == [project |-> "none", port |-> 0, reused |-> FALSE, bound |-> {}]

\* An empty SANDBOX_HOST_ROOT, no container, no deployment in progress.
SandboxHostEmpty ==
    /\ deployments = [w \in Workers |-> [pc |-> "idle", project |-> "none"]]
    /\ runtime_infos = [p \in Projects |-> NoRuntimeInfo]
    /\ containers = {}
    /\ host_ports = {}
    /\ host_dirs = [p \in Projects |-> "none"]
    /\ allocation = NoAllocation
    /\ launches = 0

\* No function is being called on its own.
FunctionsIdle ==
    /\ fn_pc = "idle"
    /\ fn_input = [fn |-> "none"]
    /\ fn_output = [fn |-> "none"]
    /\ SandboxHostEmpty

\* The generator of a run exists and has not been resumed.
PipelineNotStarted ==
    /\ pc = "init"
    /\ events = <<>>
    /\ terminal = NoTerminal
    /\ faults = {}
    /\ \E in \in RunInputs :
          /\ runtime_mode = in.runtime_mode
          /\ start_stage = in.start_stage
          /\ charter_override = in.charter_override
          /\ architecture_override = in.architecture_override
    /\ run_status = "pending"
    /\ session_ops = <<>>
    /\ artifacts = <<>>
    /\ charter = NoCharter
    /\ architecture = "none"
    /\ code = NoBundle
    /\ next_bundle_id = 1
    /\ implementer_calls = 0
    /\ attempt = 0
    /\ review = NoReview
    /\ last_pass = NoPass
    /\ reviewer_calls = 0
    /\ patch_calls = 0
    /\ review_artifact_for_completion = NoReviewArtifact
    /\ repair_agent_created = FALSE
    /\ repair_attempts = 0
    /\ escalation_attempts = 0
    /\ repaired = FALSE
    /\ affected_files = {}
    /\ current_code = NoBundle
    /\ latest_report = NoReport
    /\ evaluations = 0
    /\ last_evaluation = "none"
    /\ repair_patch_calls = 0
    /\ repair_result = NoRepair
    /\ repair_artifact_for_completion = NoRepair
    /\ repair_pass_index = 0

Init == PipelineNotStarted /\ FunctionsIdle

(***************************************************************************)
(* Stages 1-4: starting, requirements, architecture, implementer.          *)
(***************************************************************************)
\* orchestrator.py 98: yield starting
Start ==
    /\ pc = "init"
    /\ Yield("starting")
    /\ pc' = "starting"
    /\ UNCHANGED <<faults, inputVars, fnVars, sandboxVars, dbVars, stageVars, reviewVars, repairVars>>

\* orchestrator.py 99-116: status running, start at the requirements stage
BeginRequirements ==
    /\ pc = "starting"
    /\ stage_mode(start_stage) = Text("requirements")
    /\ run_status' = "running"
    /\ session_ops' = UpdateRunStatusSafely(session_ops, "running")
    /\ Yield("requirements")
    /\ pc' = "requirements"
    /\ UNCHANGED <<faults, inputVars, fnVars, sandboxVars, artifacts, stageVars, reviewVars, repairVars>>

\* A rejection that only knows the unsupported stage names.
OnlyUnsupportedStageRejected(stage, has_architecture) ==
    stage \notin {Text("requirements"), Text("implementer")}

\* orchestrator.py 145-146, 153-154: ValueError for a resume without an
\* architecture or for an unsupported start_stage
StartStageRejected(stage, has_architecture) ==
    \/ stage = Text("implementer") /\ ~has_architecture
    \/ stage \notin {Text("requirements"), Text("implementer")}

\* A resume that goes on to the implementer without its checkpoint events.
ResumeWithoutCheckpoints ==
    /\ pc = "starting"
    /\ stage_mode(start_stage) = Text("implementer")
    /\ ~StartStageRejected(stage_mode(start_stage), architecture_override)
    /\ run_status' = "running"
    /\ session_ops' = UpdateRunStatusSafely(session_ops, "running")
    /\ architecture' = "override"
    /\ charter' = IF charter_override THEN [entities |-> 1, endpoints |-> 1] ELSE NoCharter
    /\ pc' = "architecture_done"
    /\ UNCHANGED <<events, terminal, faults, inputVars, fnVars, sandboxVars, artifacts, code, next_bundle_id,
                   implementer_calls, reviewVars, repairVars>>

\* orchestrator.py 99-113, 144-152: resume at the implementer stage
BeginResume ==
    /\ pc = "starting"
    /\ stage_mode(start_stage) = Text("implementer")
    /\ ~StartStageRejected(stage_mode(start_stage), architecture_override)
    /\ run_status' = "running"
    /\ session_ops' = UpdateRunStatusSafely(session_ops, "running")
    /\ architecture' = IF architecture_override THEN "override" ELSE "none"
    /\ charter' = IF charter_override THEN [entities |-> 1, endpoints |-> 1] ELSE NoCharter
    /\ IF charter_override
          THEN Yield("requirements_done") /\ pc' = "resume_requirements_done"
          ELSE Yield("architecture_done") /\ pc' = "architecture_done"
    /\ UNCHANGED <<faults, inputVars, fnVars, sandboxVars, artifacts, code, next_bundle_id, implementer_calls,
                   reviewVars, repairVars>>

\* orchestrator.py 152, after the resumed requirements_done checkpoint
ResumeArchitectureDone ==
    /\ pc = "resume_requirements_done"
    /\ Yield("architecture_done")
    /\ pc' = "architecture_done"
    /\ UNCHANGED <<faults, inputVars, fnVars, sandboxVars, dbVars, stageVars, reviewVars, repairVars>>

\* orchestrator.py 99-113, 145-146, 153-154: the start state is rejected
BeginInvalid ==
    /\ pc = "starting"
    /\ StartStageRejected(stage_mode(start_stage), architecture_override)
    /\ run_status' = "running"
    /\ PipelineExceptionHandler(UpdateRunStatusSafely(session_ops, "running"),
                                "invalid_start_state")
    /\ UNCHANGED <<inputVars, fnVars, sandboxVars, artifacts, stageVars, reviewVars, repairVars>>

\* A post-validation that looks at the entities only.
CharterWithEntitiesAccepted(c) == c.entities > 0

\* requirements_agent.py 24-27: the post-validation of the extracted charter
RequirementsAgentAccepts(c) == c.entities > 0 /\ c.endpoints > 0

\* orchestrator.py 117-128: RequirementsAgent.run, persist, yield requirements_done
RunRequirements ==
    /\ pc = "requirements"
    /\ \/ /\ PipelineExceptionHandler(session_ops, "requirements_llm")
          /\ UNCHANGED <<charter, artifacts>>
       \/ \E c \in LLMCharters :
             IF ~RequirementsAgentAccepts(c)
                THEN /\ PipelineExceptionHandler(session_ops, "requirements_empty_charter")
                     /\ UNCHANGED <<charter, artifacts>>
                ELSE /\ charter' = c
                     /\ \/ /\ PipelineExceptionHandler(session_ops, "persist_requirements")
                           /\ UNCHANGED artifacts
                        \/ /\ artifacts' = CreateArtifactRecord(artifacts, "requirements",
                                                                0, NoBundle)
                           /\ Yield("requirements_done")
                           /\ pc' = "requirements_done"
                           /\ UNCHANGED <<faults, session_ops>>
    /\ UNCHANGED <<inputVars, fnVars, sandboxVars, run_status, architecture, code, next_bundle_id,
                   implementer_calls, reviewVars, repairVars>>

\* orchestrator.py 131: yield architecture
BeginArchitecture ==
    /\ pc = "requirements_done"
    /\ Yield("architecture")
    /\ pc' = "architecture"
    /\ UNCHANGED <<faults, inputVars, fnVars, sandboxVars, dbVars, stageVars, reviewVars, repairVars>>

\* orchestrator.py 132-143: ArchitectureAgent.run, persist, yield architecture_done
RunArchitecture ==
    /\ pc = "architecture"
    /\ \/ /\ PipelineExceptionHandler(session_ops, "architecture_llm")
          /\ UNCHANGED <<architecture, artifacts>>
       \/ /\ architecture' = "generated"
          /\ \/ /\ PipelineExceptionHandler(session_ops, "persist_architecture")
                /\ UNCHANGED artifacts
             \/ /\ artifacts' = CreateArtifactRecord(artifacts, "architecture", 0, NoBundle)
                /\ Yield("architecture_done")
                /\ pc' = "architecture_done"
                /\ UNCHANGED <<faults, session_ops>>
    /\ UNCHANGED <<inputVars, fnVars, sandboxVars, run_status, charter, code, next_bundle_id,
                   implementer_calls, reviewVars, repairVars>>

\* orchestrator.py 157: yield implementer
BeginImplementer ==
    /\ pc = "architecture_done"
    /\ Yield("implementer")
    /\ pc' = "implementer"
    /\ UNCHANGED <<faults, inputVars, fnVars, sandboxVars, dbVars, stageVars, reviewVars, repairVars>>

\* implementer_agent.py 271-290: Generate returns a fresh bundle of the planned files
ImplementerAgentRun(id) == [id |-> id, paths |-> RequiredPaths]

\* orchestrator.py 158-178: ImplementerAgent.run, persist, yield implementer_done
RunImplementer ==
    /\ pc = "implementer"
    /\ implementer_calls' = implementer_calls + 1
    /\ \/ /\ PipelineExceptionHandler(session_ops, "implementer_llm")
          /\ UNCHANGED <<code, next_bundle_id, artifacts>>
       \/ /\ code' = ImplementerAgentRun(next_bundle_id)
          /\ next_bundle_id' = next_bundle_id + 1
          /\ \/ /\ PipelineExceptionHandler(session_ops, "persist_implementer")
                /\ UNCHANGED artifacts
             \/ /\ artifacts' = CreateArtifactRecord(artifacts, "implementer", 0, code')
                /\ Yield("implementer_done")
                /\ pc' = "implementer_done"
                /\ UNCHANGED <<faults, session_ops>>
    /\ UNCHANGED <<inputVars, fnVars, sandboxVars, run_status, charter, architecture, reviewVars, repairVars>>

(***************************************************************************)
(* Stage 5: the review loop.                                               *)
(***************************************************************************)
\* Sample values of ReviewReport.security_score on both sides of the threshold.
ScoreValues == {6, 7}

\* What a report of the reviewer LLM call can name.  Paths stand for the files of
\* final_code, patch_requests, affected_files and issues[*].file_path; " " and ""
\* are the blank entries the orchestrator filters out.
EmptyReview == [approved |-> FALSE, security_score |-> 6, final_code |-> {},
                patch_requests |-> {}, affected_files |-> {}, issue_paths |-> {}]

ReviewContents ==
    { EmptyReview,
      [EmptyReview EXCEPT !.final_code = {"app/main.py", "app/routes.py"}],
      [EmptyReview EXCEPT !.final_code = {"app/main.py"},
                          !.patch_requests = {"app/main.py"}],
      [EmptyReview EXCEPT !.patch_requests = {"app/main.py"}],
      [EmptyReview EXCEPT !.patch_requests = {"app/missing.py"}],
      [EmptyReview EXCEPT !.affected_files = {" "}, !.issue_paths = {""}],
      [EmptyReview EXCEPT !.affected_files = {"app/routes.py"}],
      [EmptyReview EXCEPT !.issue_paths = {"app/models.py"}] }

\* Reports the reviewer LLM call can return.
LLMReviews ==
    { [c EXCEPT !.approved = a, !.security_score = n] :
         c \in ReviewContents, a \in BOOLEAN, n \in ScoreValues }

\* Files the deterministic validator can report failures for (none, or one file).
ValidatorFailures == {{}, {"app/routes.py"}}

Min(a, b) == IF a <= b THEN a ELSE b

\* A merge that adds the validator's findings and leaves the verdict alone.
MergeWithoutRejection(r, failing) ==
    [r EXCEPT !.issue_paths = r.issue_paths \cup failing,
              !.affected_files = r.affected_files \cup (failing \ {""}),
              !.patch_requests = r.patch_requests \cup (failing \ {"", " "})]

\* reviewer_agent.py 16-74: ReviewerAgent._merge_deterministic_report
MergeDeterministicReport(r, failing) ==
    IF failing = {}
       THEN r
       ELSE [r EXCEPT !.issue_paths = r.issue_paths \cup failing,
                      !.affected_files = r.affected_files \cup (failing \ {""}),
                      !.patch_requests = r.patch_requests \cup (failing \ {"", " "}),
                      !.approved = FALSE,
                      !.security_score = Min(r.security_score, 6)]

\* An acceptance that trusts the approved flag alone.
ApprovedAlone(r) == r.approved

\* orchestrator.py 235-236: review_accepted
ReviewAccepted(r) == r.approved /\ r.security_score >= REVIEW_TRUST_SCORE_THRESHOLD

NonBlank(p) == p \notin {"", " "}

\* orchestrator.py 280-290: targeted_paths
TargetedPaths(r) ==
    {p \in r.affected_files : NonBlank(p)} \cup {p \in r.issue_paths : NonBlank(p)}

\* orchestrator.py 291-303: the paths of patch_requests, synthesized when the
\* reviewer sent none
ReviewPatchRequests(r) ==
    IF r.patch_requests # {} THEN r.patch_requests ELSE TargetedPaths(r)

\* implementer_agent.py 204-269: patch_files regenerates the requested files that
\* are in the bundle; with none of them in it, it returns current_code itself.
PatchFiles(bundle, request_paths, id) ==
    IF bundle.paths = {} \/ request_paths \cap bundle.paths = {}
       THEN bundle
       ELSE [id |-> id, paths |-> bundle.paths]

\* orchestrator.py 184-192: the artifact before the first review pass
InitialReviewArtifact(bundle) ==
    [approved |-> TRUE, security_score |-> 7, final_code |-> bundle, suggestions |-> {},
     runtime_mode |-> "", artifacts_released |-> FALSE]

\* orchestrator.py 202-203: review.model_dump() with the current files
ReviewArtifact(r, bundle) ==
    [approved |-> r.approved, security_score |-> r.security_score, final_code |-> bundle,
     suggestions |-> {}, runtime_mode |-> "", artifacts_released |-> FALSE]

\* orchestrator.py 358-364: the artifact of a failed reviewer stage
ReviewerFailedArtifact(bundle) ==
    [approved |-> FALSE, security_score |-> 5, final_code |-> bundle,
     suggestions |-> {"reviewer_failed"}, runtime_mode |-> "",
     artifacts_released |-> FALSE]

\* A handler that goes on with the implementer output without a reviewer_done event.
ReviewExceptionWithoutEvent(fault) ==
    /\ review' = NoReview
    /\ review_artifact_for_completion' = ReviewerFailedArtifact(code)
    /\ last_pass' = [attempt |-> attempt, approved |-> FALSE, security_score |-> 0,
                     outcome |-> "exception", exit |-> "exception",
                     code_replaced |-> FALSE]
    /\ faults' = faults \cup {fault}
    /\ UNCHANGED <<events, terminal>>
    /\ pc' = "reviewer_done"

\* orchestrator.py 356-373: except Exception as review_error
\* (the local `review` is not read after the decision on it; it is cleared there)
ReviewExceptionHandler(fault) ==
    /\ review' = NoReview
    /\ review_artifact_for_completion' = ReviewerFailedArtifact(code)
    /\ last_pass' = [attempt |-> attempt, approved |-> FALSE, security_score |-> 0,
                     outcome |-> "exception", exit |-> "exception",
                     code_replaced |-> FALSE]
    /\ faults' = faults \cup {fault}
    /\ Yield("reviewer_done")
    /\ pc' = "reviewer_done"

\* orchestrator.py 181-199: enter the loop, first yield reviewer
EnterReviewLoop ==
    /\ pc = "implementer_done"
    /\ review_artifact_for_completion' = InitialReviewArtifact(code)
    /\ attempt' = 1
    /\ Yield("reviewer")
    /\ pc' = "reviewer"
    /\ UNCHANGED <<faults, inputVars, fnVars, sandboxVars, dbVars, stageVars, review, last_pass, reviewer_calls,
                   patch_calls, repairVars>>

\* orchestrator.py 201-233: ReviewerAgent.run, persist the pass, yield review_pass
ReviewPass ==
    /\ pc = "reviewer"
    /\ reviewer_calls' = reviewer_calls + 1
    /\ \/ /\ ReviewExceptionHandler("reviewer")
          /\ UNCHANGED artifacts
       \/ /\ ReviewExceptionHandler("persist_reviewer_pass")
          /\ UNCHANGED artifacts
       \/ \E raw \in LLMReviews, failing \in ValidatorFailures :
             /\ review' = MergeDeterministicReport(raw, failing)
             /\ artifacts' = CreateArtifactRecord(artifacts, "reviewer_pass", attempt, code)
             /\ review_artifact_for_completion' = ReviewArtifact(review', code)
             /\ Yield("review_pass")
             /\ pc' = "review_pass"
             /\ UNCHANGED <<faults, last_pass>>
    /\ UNCHANGED <<inputVars, fnVars, sandboxVars, run_status, session_ops, stageVars, attempt, patch_calls,
                   repairVars>>

PassRecord(outcome, exit, after) ==
    [attempt |-> attempt, approved |-> review.approved,
     security_score |-> review.security_score, outcome |-> outcome, exit |-> exit,
     code_replaced |-> after # code]

\* orchestrator.py 235-343: what the loop body does with the report of this pass
ReviewDecide ==
    /\ pc = "review_pass"
    /\ IF ReviewAccepted(review)
          THEN \* 238-254
               /\ last_pass' = PassRecord("accepted", "accepted", code)
               /\ review' = NoReview
               /\ Yield("reviewer_done")
               /\ pc' = "reviewer_done"
               /\ UNCHANGED <<faults, code, next_bundle_id, patch_calls,
                              review_artifact_for_completion>>
          ELSE IF review.final_code # {}
          THEN \* 264-278
               /\ code' = [id |-> next_bundle_id, paths |-> review.final_code]
               /\ next_bundle_id' = next_bundle_id + 1
               /\ review_artifact_for_completion' =
                     [review_artifact_for_completion EXCEPT !.final_code = code']
               /\ last_pass' = PassRecord("adopted", "none", code')
               /\ review' = NoReview
               /\ Yield("revision")
               /\ pc' = "revision"
               /\ UNCHANGED <<faults, patch_calls>>
          ELSE IF ReviewPatchRequests(review) = {}
          THEN \* 306-320
               /\ last_pass' = PassRecord("nothing_to_patch", "released_as_is", code)
               /\ review' = NoReview
               /\ Yield("reviewer_done")
               /\ pc' = "reviewer_done"
               /\ UNCHANGED <<faults, code, next_bundle_id, patch_calls,
                              review_artifact_for_completion>>
          ELSE \* 322-343
               /\ patch_calls' = patch_calls + 1
               /\ \/ /\ ReviewExceptionHandler("review_patch")
                     /\ UNCHANGED <<code, next_bundle_id>>
                  \/ /\ code' = PatchFiles(code, ReviewPatchRequests(review), next_bundle_id)
                     /\ next_bundle_id' = IF code' = code THEN next_bundle_id
                                                         ELSE next_bundle_id + 1
                     /\ review_artifact_for_completion' =
                           [review_artifact_for_completion EXCEPT !.final_code = code']
                     /\ last_pass' = PassRecord("patched", "none", code')
                     /\ review' = NoReview
                     /\ Yield("revision")
                     /\ pc' = "revision"
                     /\ UNCHANGED faults
    /\ UNCHANGED <<inputVars, fnVars, sandboxVars, dbVars, charter, architecture, implementer_calls, attempt,
                   reviewer_calls, repairVars>>

\* A loop bound that is off by one.
ReviewLoopContinuesInclusive(n) == n <= MAX_REVIEW_ITERATIONS

\* orchestrator.py 195: the for statement has another iteration
ReviewLoopContinues(n) == n < MAX_REVIEW_ITERATIONS

\* orchestrator.py 195-199, 344-355: next iteration, or the for-else when exhausted
NextReviewIteration ==
    /\ pc = "revision"
    /\ IF ReviewLoopContinues(attempt)
          THEN /\ attempt' = attempt + 1
               /\ Yield("reviewer")
               /\ pc' = "reviewer"
               /\ UNCHANGED last_pass
          ELSE /\ last_pass' = [last_pass EXCEPT !.exit = "exhausted"]
               /\ Yield("reviewer_done")
               /\ pc' = "reviewer_done"
               /\ UNCHANGED attempt
    /\ UNCHANGED <<faults, inputVars, fnVars, sandboxVars, dbVars, stageVars, review, reviewer_calls,
                   patch_calls, review_artifact_for_completion, repairVars>>

\* A local_cli completion that reports the approval the review loop left.
CompleteLocalCliAsReviewed ==
    /\ pc = "reviewer_done"
    /\ normalized_runtime_mode(runtime_mode) = Text("local_cli")
    /\ review_artifact_for_completion' =
          [review_artifact_for_completion EXCEPT
              !.runtime_mode = "local_cli",
              !.suggestions = @ \cup {"skipped_sandbox_repair"}]
    /\ events' = Append(events, "completed")
    /\ terminal' = [status |-> "completed", message |-> "skipping_sandbox_repair",
                    approved |-> review_artifact_for_completion'.approved,
                    final_code |-> review_artifact_for_completion'.final_code,
                    suggestions |-> review_artifact_for_completion'.suggestions,
                    runtime_mode |-> review_artifact_for_completion'.runtime_mode,
                    artifacts_released |->
                        review_artifact_for_completion'.artifacts_released]
    /\ pc' = "completed"
    /\ UNCHANGED <<faults, inputVars, fnVars, sandboxVars, dbVars, stageVars, attempt, review, last_pass,
                   reviewer_calls, patch_calls, repairVars>>

\* orchestrator.py 375-386: local_cli ends the run after the review loop
CompleteLocalCli ==
    /\ pc = "reviewer_done"
    /\ normalized_runtime_mode(runtime_mode) = Text("local_cli")
    /\ review_artifact_for_completion' =
          [review_artifact_for_completion EXCEPT
              !.runtime_mode = "local_cli",
              !.approved = TRUE,
              !.suggestions = @ \cup {"skipped_sandbox_repair"}]
    /\ events' = Append(events, "completed")
    /\ terminal' = [status |-> "completed", message |-> "skipping_sandbox_repair",
                    approved |-> review_artifact_for_completion'.approved,
                    final_code |-> review_artifact_for_completion'.final_code,
                    suggestions |-> review_artifact_for_completion'.suggestions,
                    runtime_mode |-> review_artifact_for_completion'.runtime_mode,
                    artifacts_released |->
                        review_artifact_for_completion'.artifacts_released]
    /\ pc' = "completed"
    /\ UNCHANGED <<faults, inputVars, fnVars, sandboxVars, dbVars, stageVars, attempt, review, last_pass,
                   reviewer_calls, patch_calls, repairVars>>

(***************************************************************************)
(* Stage 6: the runtime repair loop (RepairAgent.run) and its release.     *)
(***************************************************************************)
\* TestRunner.run results: passed, or a blocking failure whose file_path is a file
\* of the bundle, a file outside it, or missing ("").
TestRunReports ==
    {[passed |-> TRUE, failure_path |-> "none"]} \cup
    {[passed |-> FALSE, failure_path |-> p] : p \in {"app/main.py", "app/tests.py", ""}}

\* A passing report returned without looking at the sandbox.
LivenessNotRechecked(report, live) == report

\* repair_agent.py 101-128: _ensure_live_sandbox_after_success (project_id is given)
EnsureLiveSandboxAfterSuccess(report, live) ==
    IF ~report.passed \/ live
       THEN report
       ELSE [passed |-> FALSE, failure_path |-> "app/main.py"]

\* What an evaluation and the liveness re-check that follows a passing one observed.
EvaluationOutcome(raw, live) ==
    IF ~raw.passed THEN "failed"
    ELSE IF live THEN "passed_live"
    ELSE "passed_not_live"

FallbackCandidates == <<"app/routes.py", "app/main.py", "app/schemas.py", "app/models.py",
                        "app/service.py", "app/services.py">>

\* repair_agent.py 41-50: _select_fallback_path, as the set holding the path chosen
SelectFallbackPath(paths, failure_path) ==
    IF failure_path # ""
       THEN {failure_path}
       ELSE LET hits == {i \in 1..Len(FallbackCandidates) : FallbackCandidates[i] \in paths}
            IN IF hits # {}
                  THEN {FallbackCandidates[CHOOSE i \in hits : \A j \in hits : i <= j]}
                  ELSE IF paths = {} THEN {} ELSE {CHOOSE p \in paths : TRUE}

\* repair_agent.py 130-141: build_repair_requests, the paths requested
BuildRepairRequests(bundle, report) ==
    (IF report.failure_path # "" THEN {report.failure_path} ELSE {})
        \cup SelectFallbackPath(bundle.paths, report.failure_path)

\* repair_agent.py 143-186: _build_escalation_patch_requests, the paths requested
BuildEscalationPatchRequests(bundle, report, affected) ==
    LET named == {p \in affected : NonBlank(p)}
        selected == SelectFallbackPath(bundle.paths, report.failure_path)
    IN IF named # {} THEN named
       ELSE IF selected # {} THEN selected
       ELSE bundle.paths

\* A report whose verdict is passed whatever the loop found.
RepairReportAlwaysPassed(passed, was_repaired, n, affected, bundle, summary) ==
    [passed |-> TRUE, fully_validated |-> FALSE,
     repaired |-> was_repaired, attempts |-> n, affected_files |-> affected,
     final_code |-> bundle, summary |-> summary]

\* RepairReport is built without fully_validated: the field keeps its default.
RepairReportFullyValidatedDefault == FALSE

\* A report whose attempts leave out the escalation passes.
RepairReportOfTargetedPasses(passed, was_repaired, n, affected, bundle, summary) ==
    [passed |-> passed, fully_validated |-> RepairReportFullyValidatedDefault,
     repaired |-> was_repaired, attempts |-> n - escalation_attempts,
     affected_files |-> affected, final_code |-> bundle, summary |-> summary]

RepairReport(passed, was_repaired, n, affected, bundle, summary) ==
    [passed |-> passed, fully_validated |-> RepairReportFullyValidatedDefault,
     repaired |-> was_repaired, attempts |-> n, affected_files |-> affected,
     final_code |-> bundle, summary |-> summary]

\* An escalation bound that is off by one.
EscalationBudgetLeftInclusive(n) == n <= ESCALATION_ITERATIONS

\* A targeted budget that is one pass short.
TargetedBudgetCutShort(n) == n < MAX_REPAIR_ITERATIONS - 1

\* repair_agent.py 211, 247: the loop conditions
TargetedBudgetLeft(n) == n < MAX_REPAIR_ITERATIONS

EscalationBudgetLeft(n) == n < ESCALATION_ITERATIONS

\* orchestrator.py 390-402: construct the agent and its context, yield repairer
BeginRepair ==
    /\ pc = "reviewer_done"
    /\ normalized_runtime_mode(runtime_mode) # Text("local_cli")
    /\ repair_agent_created' = TRUE
    /\ Yield("repairer")
    /\ pc' = "repairer"
    /\ UNCHANGED <<faults, inputVars, fnVars, sandboxVars, dbVars, stageVars, reviewVars, repairLoopVars,
                   repair_result, repair_artifact_for_completion, repair_pass_index>>

\* repair_agent.py 189-192: RepairAgent.run up to its first evaluation
RepairStart ==
    /\ pc = "repairer"
    /\ current_code' = code
    /\ repair_attempts' = 0
    /\ repaired' = FALSE
    /\ affected_files' = {}
    /\ pc' = "repair_evaluate"
    /\ UNCHANGED <<events, terminal, faults, inputVars, fnVars, sandboxVars, dbVars, stageVars, reviewVars,
                   repair_agent_created, escalation_attempts, latest_report, evaluations,
                   last_evaluation, repair_patch_calls, repair_result,
                   repair_artifact_for_completion,
                   repair_pass_index>>

\* RepairAgent.run returned or raised: its frame, and the locals in it, are gone.
RunFrameReleased ==
    /\ repair_attempts' = 0
    /\ escalation_attempts' = 0
    /\ repaired' = FALSE
    /\ affected_files' = {}
    /\ current_code' = NoBundle
    /\ latest_report' = NoReport

\* The loop entered after a failing evaluation: a targeted pass (214-229), an
\* escalation pass (248-265) or the exhausted report (287-301), up to the await of
\* patch_files.
AfterFailedEvaluation(escalating, report) ==
    LET targeted == BuildRepairRequests(current_code, report)
        escalated == BuildEscalationPatchRequests(current_code, report, affected_files)
    IN IF ~escalating /\ TargetedBudgetLeft(repair_attempts) /\ targeted # {}
          THEN /\ repair_attempts' = repair_attempts + 1
               /\ repaired' = TRUE
               /\ affected_files' = affected_files \cup targeted
               /\ latest_report' = report
               /\ pc' = "repair_patch"
               /\ UNCHANGED <<escalation_attempts, current_code, repair_result>>
          ELSE IF EscalationBudgetLeft(escalation_attempts) /\ escalated # {}
          THEN /\ escalation_attempts' = escalation_attempts + 1
               /\ repair_attempts' = repair_attempts + 1
               /\ repaired' = TRUE
               /\ affected_files' = affected_files \cup escalated
               /\ latest_report' = report
               /\ pc' = "repair_escalate"
               /\ UNCHANGED <<current_code, repair_result>>
          ELSE /\ repair_result' =
                     RepairReport(FALSE, repaired, repair_attempts, affected_files,
                                  current_code,
                                  IF repaired THEN "exhausted" ELSE "no_repairable_files")
               /\ RunFrameReleased
               /\ pc' = "repair_returned"

\* repair_agent.py 194-209, 231-245, 267-285: evaluate, re-check liveness, return a
\* passing report or go on repairing
RepairEvaluate ==
    /\ pc \in {"repair_evaluate", "repair_evaluate_escalated"}
    /\ evaluations' = evaluations + 1
    /\ \/ /\ pc' = "repair_raised"
          /\ faults' = faults \cup {"repair_evaluate"}
          /\ last_evaluation' = "raised"
          /\ RunFrameReleased
          /\ UNCHANGED repair_result
       \/ \E raw \in TestRunReports, live \in BOOLEAN :
             LET report == EnsureLiveSandboxAfterSuccess(raw, live)
             IN /\ UNCHANGED faults
                /\ last_evaluation' = EvaluationOutcome(raw, live)
                /\ IF report.passed
                      THEN /\ repair_result' =
                                 RepairReport(TRUE, repaired, repair_attempts,
                                              IF repaired THEN affected_files ELSE {},
                                              current_code,
                                              IF ~repaired THEN "passed_without_repairs"
                                              ELSE IF pc = "repair_evaluate_escalated"
                                                   THEN "fixed_escalated" ELSE "fixed")
                           /\ RunFrameReleased
                           /\ pc' = "repair_returned"
                      ELSE AfterFailedEvaluation(pc = "repair_evaluate_escalated", report)
    /\ UNCHANGED <<events, terminal, inputVars, fnVars, sandboxVars, dbVars, stageVars, reviewVars,
                   repair_agent_created, repair_patch_calls,
                   repair_artifact_for_completion, repair_pass_index>>

\* repair_agent.py 224-229, 260-265: the awaited patch_files of a targeted or an
\* escalation pass
RepairPatch ==
    /\ pc \in {"repair_patch", "repair_escalate"}
    /\ repair_patch_calls' = repair_patch_calls + 1
    /\ \/ /\ pc' = "repair_raised"
          /\ faults' = faults \cup {"repair_patch"}
          /\ RunFrameReleased
          /\ UNCHANGED next_bundle_id
       \/ /\ current_code' =
                PatchFiles(current_code,
                           IF pc = "repair_patch"
                              THEN BuildRepairRequests(current_code, latest_report)
                              ELSE BuildEscalationPatchRequests(current_code, latest_report,
                                                                affected_files),
                           next_bundle_id)
          /\ next_bundle_id' = IF current_code' = current_code THEN next_bundle_id
                                                              ELSE next_bundle_id + 1
          /\ pc' = IF pc = "repair_patch" THEN "repair_evaluate"
                                          ELSE "repair_evaluate_escalated"
          /\ UNCHANGED <<faults, repair_attempts, escalation_attempts, repaired,
                         affected_files, latest_report>>
    /\ UNCHANGED <<events, terminal, inputVars, fnVars, sandboxVars, dbVars, charter, architecture, code,
                   implementer_calls, reviewVars, repair_agent_created,
                   evaluations, last_evaluation, repair_result,
                   repair_artifact_for_completion,
                   repair_pass_index>>

\* orchestrator.py 434-444: the artifact of a failed repair stage
RepairStageFailedArtifact(bundle) ==
    [passed |-> FALSE, fully_validated |-> FALSE, repaired |-> FALSE, attempts |-> 0,
     affected_files |-> {}, final_code |-> bundle, summary |-> "stage_failed"]

\* orchestrator.py 459-471: the completion artifact after the repair stage
ReleaseArtifact(ra, bundle, artifact) ==
    [ra EXCEPT !.final_code = bundle,
               !.approved = artifact.passed,
               !.artifacts_released = (bundle.paths # {}),
               !.suggestions =
                   @ \cup {artifact.summary} \cup
                   (IF artifact.passed /\ ~artifact.fully_validated
                       THEN {"smoke_warnings"} ELSE {})]

\* orchestrator.py 445-480: persist repairer_final, fill the completion artifact and
\* yield repairer_done.  `rows` are the records committed so far by the running
\* segment, `earlier` the exceptions it caught.
FinalizeRepair(rows, artifact, bundle, earlier) ==
    /\ repair_artifact_for_completion' = artifact
    /\ \/ /\ artifacts' = rows
          /\ PipelineExceptionHandlerAfter(session_ops, "persist_repairer_final", earlier)
          /\ UNCHANGED review_artifact_for_completion
       \/ /\ artifacts' = CreateArtifactRecord(rows, "repairer_final", 0, bundle)
          /\ review_artifact_for_completion' =
                ReleaseArtifact(review_artifact_for_completion, bundle, artifact)
          /\ faults' = faults \cup earlier
          /\ Yield("repairer_done")
          /\ pc' = "repairer_done"
          /\ UNCHANGED session_ops

\* orchestrator.py 405-417: RepairAgent.run returned; first repair_revision, if any
RepairReturned ==
    /\ pc = "repair_returned"
    /\ code' = repair_result.final_code
    /\ IF repair_result.attempts >= 1
          THEN /\ repair_artifact_for_completion' = repair_result
               /\ repair_pass_index' = 1
               /\ Yield("repair_revision")
               /\ pc' = "repair_revision"
               /\ UNCHANGED <<faults, session_ops, artifacts,
                              review_artifact_for_completion>>
          ELSE /\ FinalizeRepair(artifacts, repair_result, code', {})
               /\ UNCHANGED repair_pass_index
    /\ UNCHANGED <<inputVars, fnVars, sandboxVars, run_status, charter, architecture, next_bundle_id,
                   implementer_calls, attempt, review, last_pass, reviewer_calls,
                   patch_calls, repair_agent_created, repairLoopVars, repair_result>>

\* orchestrator.py 419-431: persist repairer_pass_n, then the next repair_revision or
\* the end of the stage
RepairRevision ==
    /\ pc = "repair_revision"
    /\ \/ FinalizeRepair(artifacts, RepairStageFailedArtifact(code), code,
                         {"persist_repairer_pass"})
          /\ UNCHANGED repair_pass_index
       \/ LET rows == CreateArtifactRecord(artifacts, "repairer_pass",
                                           repair_pass_index, code)
          IN IF repair_pass_index < repair_result.attempts
                THEN /\ artifacts' = rows
                     /\ repair_pass_index' = repair_pass_index + 1
                     /\ Yield("repair_revision")
                     /\ pc' = "repair_revision"
                     /\ UNCHANGED <<faults, session_ops, review_artifact_for_completion,
                                    repair_artifact_for_completion>>
                ELSE /\ FinalizeRepair(rows, repair_artifact_for_completion, code, {})
                     /\ UNCHANGED repair_pass_index
    /\ UNCHANGED <<inputVars, fnVars, sandboxVars, run_status, stageVars, attempt, review, last_pass,
                   reviewer_calls, patch_calls, repair_agent_created, repairLoopVars,
                   repair_result>>

\* orchestrator.py 432-444: RepairAgent.run raised
RepairRaised ==
    /\ pc = "repair_raised"
    /\ FinalizeRepair(artifacts, RepairStageFailedArtifact(code), code, {})
    /\ UNCHANGED <<inputVars, fnVars, sandboxVars, run_status, stageVars, attempt, review, last_pass,
                   reviewer_calls, patch_calls, repair_agent_created, repairLoopVars,
                   repair_result, repair_pass_index>>

\* orchestrator.py 482-502: the completed event of a sandbox run
CompleteSandbox ==
    /\ pc = "repairer_done"
    /\ review_artifact_for_completion' =
          IF ~review_artifact_for_completion.approved
             THEN [review_artifact_for_completion EXCEPT
                      !.suggestions = @ \cup {"released_with_blocking_issues"}]
             ELSE review_artifact_for_completion
    /\ events' = Append(events, "completed")
    /\ terminal' = [status |-> "completed",
                    message |-> IF ~review_artifact_for_completion.approved
                                   THEN "blocking_issues_remain"
                                   ELSE IF repair_artifact_for_completion.fully_validated
                                   THEN "finished_successfully"
                                   ELSE "deployable_with_warnings",
                    approved |-> review_artifact_for_completion'.approved,
                    final_code |-> review_artifact_for_completion'.final_code,
                    suggestions |-> review_artifact_for_completion'.suggestions,
                    runtime_mode |-> review_artifact_for_completion'.runtime_mode,
                    artifacts_released |->
                        review_artifact_for_completion'.artifacts_released]
    /\ pc' = "completed"
    /\ UNCHANGED <<faults, inputVars, fnVars, sandboxVars, dbVars, stageVars, attempt, review, last_pass,
                   reviewer_calls, patch_calls, repairVars>>

\* A handler that marks the run completed after its error event.
FinishFailedAsCompleted ==
    /\ pc = "error"
    /\ run_status' = "completed"
    /\ session_ops' = UpdateRunStatusSafely(session_ops, "completed")
    /\ pc' = "done"
    /\ UNCHANGED <<events, terminal, faults, inputVars, fnVars, sandboxVars, artifacts, stageVars, reviewVars,
                   repairVars>>

\* orchestrator.py 509: the status update that follows the error event
FinishFailed ==
    /\ pc = "error"
    /\ run_status' = "failed"
    /\ session_ops' = UpdateRunStatusSafely(session_ops, "failed")
    /\ pc' = "done"
    /\ UNCHANGED <<events, terminal, faults, inputVars, fnVars, sandboxVars, artifacts, stageVars, reviewVars,
                   repairVars>>

\* orchestrator.py 387, 491, 503: the status update that follows the completed event
FinishCompleted ==
    /\ pc = "completed"
    /\ run_status' = "completed"
    /\ session_ops' = UpdateRunStatusSafely(session_ops, "completed")
    /\ pc' = "done"
    /\ UNCHANGED <<events, terminal, faults, inputVars, fnVars, sandboxVars, artifacts, stageVars, reviewVars,
                   repairVars>>

Next ==
    \/ Start
    \/ BeginRequirements
    \/ BeginResume
    \/ ResumeArchitectureDone
    \/ BeginInvalid
    \/ RunRequirements
    \/ BeginArchitecture
    \/ RunArchitecture
    \/ BeginImplementer
    \/ RunImplementer
    \/ EnterReviewLoop
    \/ ReviewPass
    \/ ReviewDecide
    \/ NextReviewIteration
    \/ CompleteLocalCli
    \/ BeginRepair
    \/ RepairStart
    \/ RepairEvaluate
    \/ RepairPatch
    \/ RepairReturned
    \/ RepairRevision
    \/ RepairRaised
    \/ CompleteSandbox
    \/ FinishFailed
    \/ FinishCompleted

Spec == Init /\ [][Next]_vars

(***************************************************************************)
(* Properties of the event stream and of the run record.                   *)
(***************************************************************************)
TerminalStatuses == {"completed", "error"}

\* Positions of the terminal events yielded so far.
TerminalPositions == {i \in 1..Len(events) : events[i] \in TerminalStatuses}

Exhausted == pc = "done"

\* Every event `later` is yielded after an event `earlier`.
Precedes(earlier, later) ==
    \A j \in 1..Len(events) :
        events[j] = later => \E i \in 1..(j - 1) : events[i] = earlier

Emitted(status) == \E i \in 1..Len(events) : events[i] = status

LastEvent == IF events = <<>> THEN "none" ELSE events[Len(events)]

\* The mode is local_cli whatever its case and padding.
LocalCliRequested == runtime_mode.base = "local_cli"

\* C1: a run driven to exhaustion has yielded exactly one terminal event
\* (completed or error); no run yields a second one, and nothing is yielded after it.
C1_ExactlyOneTerminalEventLast ==
    /\ Cardinality(TerminalPositions) <= 1
    /\ TerminalPositions \subseteq {Len(events)}
    /\ Exhausted => Cardinality(TerminalPositions) = 1
    /\ Exhausted => terminal.status = LastEvent

\* A sandbox run that went through a reviewer exception and a repair ends completed.
C1_Witness ==
    /\ Exhausted
    /\ LastEvent = "completed"
    /\ "reviewer" \in faults
    /\ Emitted("repairer_done")

\* C2: no event of a stage is yielded before the _done event of the stage before
\* it: architecture after requirements_done, implementer after architecture_done,
\* the reviewer's events after implementer_done, the repairer's events after
\* reviewer_done, and completed after the _done of the last stage executed.
C2_StageOrder ==
    /\ Precedes("requirements_done", "architecture")
    /\ Precedes("architecture_done", "implementer")
    /\ \A e \in {"reviewer", "review_pass", "revision", "reviewer_done"} :
          Precedes("implementer_done", e)
    /\ \A e \in {"repairer", "repair_revision", "repairer_done"} :
          Precedes("reviewer_done", e)
    /\ IF Emitted("repairer")
          THEN Precedes("repairer_done", "completed")
          ELSE Precedes("reviewer_done", "completed")

\* A run that executed all five stages and completed.
C2_Witness ==
    /\ Emitted("architecture")
    /\ Emitted("repair_revision")
    /\ LastEvent = "completed"

\* C3: in a sandbox run, once the repair loop has returned a report, the run ends
\* with completed, whose final_code is the report's final bundle and whose
\* approved is the report's passed.
C3_RepairReportDecidesCompletion ==
    (Exhausted /\ ~LocalCliRequested /\ repair_result # NoRepair) =>
        /\ terminal.status = "completed"
        /\ terminal.final_code = repair_result.final_code
        /\ terminal.approved = repair_result.passed

LateStageFaults == {"reviewer", "persist_reviewer_pass", "review_patch",
                    "repair_evaluate", "repair_patch", "persist_repairer_pass",
                    "persist_repairer_final"}

\* C4: after an exception of the reviewer, of the review loop's patch step or of
\* the repair stage, no error event is yielded, and the run ends with completed,
\* whose artifact notes the failure and carries the latest bundle.
C4_LateStageExceptionsComplete ==
    (faults \cap LateStageFaults # {}) =>
        /\ ~Emitted("error")
        /\ Exhausted =>
              /\ terminal.status = "completed"
              /\ terminal.final_code = code
              /\ terminal.suggestions \cap {"reviewer_failed", "stage_failed"} # {}

RequirementsFaults == {"requirements_llm", "requirements_empty_charter",
                       "persist_requirements"}

ArchitectureFaults == {"architecture_llm", "persist_architecture"}

ImplementerFaults == {"implementer_llm", "persist_implementer"}

ReviewerEvents == {"reviewer", "review_pass", "revision", "reviewer_done"}

RepairerEvents == {"repairer", "repair_revision", "repairer_done"}

\* Events of the stages after the one an early fault belongs to.
LaterStageEvents ==
    (IF faults \cap RequirementsFaults # {}
        THEN {"architecture", "architecture_done"} ELSE {})
    \cup (IF faults \cap (RequirementsFaults \cup ArchitectureFaults) # {}
             THEN {"implementer", "implementer_done"} ELSE {})
    \cup ReviewerEvents \cup RepairerEvents \cup {"completed"}

C8_LocalCliSkipsRepair ==
    LocalCliRequested =>
        /\ ~repair_agent_created
        /\ evaluations = 0
        /\ repair_patch_calls = 0
        /\ \A e \in RepairerEvents : ~Emitted(e)
        /\ \A i \in 1..(Len(events) - 1) :
              events[i] = "reviewer_done" => events[i + 1] = "completed"
        /\ terminal.status = "completed" =>
              /\ terminal.message = "skipping_sandbox_repair"
              /\ "skipped_sandbox_repair" \in terminal.suggestions
        /\ (Exhausted /\ Emitted("reviewer_done")) => terminal.status = "completed"

\* A completed local_cli run whose mode was passed in upper case and padded.
C8_Witness ==
    /\ Exhausted
    /\ LocalCliRequested
    /\ runtime_mode.upper
    /\ runtime_mode.padded
    /\ terminal.message = "skipping_sandbox_repair"

\* C9: in any run the reviewer is invoked at most 3 times, the reviewer event is
\* yielded at most 3 times, and the review loop calls patch_files at most 3 times.
C9_ReviewLoopBounded ==
    /\ reviewer_calls <= 3
    /\ patch_calls <= 3
    /\ Cardinality({i \in 1..Len(events) : events[i] = "reviewer"}) <= 3
    /\ attempt <= 3

\* Three reviewer calls and three patches before reviewer_done.
C9_Witness ==
    /\ Emitted("reviewer_done")
    /\ reviewer_calls = 3
    /\ patch_calls = 3

GeneratedBundles ==
    {artifacts[i].bundle : i \in {j \in 1..Len(artifacts) : artifacts[j].stage = "implementer"}}

\* Bundles a reviewer pass reported on.
ReviewedBundles ==
    {artifacts[i].bundle : i \in {j \in 1..Len(artifacts) : artifacts[j].stage = "reviewer_pass"}}

\* C11: when reviewer_done is yielded, a bundle the review loop produced (an adopted
\* rewrite or the result of patch_files) is one a reviewer pass has been run on: a
\* pass reported on it, or the reviewer call on it is what ended the loop.
C11_ReplacedBundleReviewedAgain ==
    (pc = "reviewer_done" /\ code \notin GeneratedBundles) =>
        \/ code \in ReviewedBundles
        \/ last_pass.exit = "exception"

(***************************************************************************)
(* The repair loop on its own: RepairAgent.run from its call to its return *)
(* or its exception, for the bundles a review loop can hand over.  The     *)
(* event loop resumes an awaited call that has finished, hence the weak    *)
(* fairness of the loop's steps.                                           *)
(***************************************************************************)
\* Bundles in RepairContext.code: the generated one, a reviewer rewrite of one
\* file, and a rewrite holding none of the fallback candidates.
RepairBundles ==
    { [id |-> 1, paths |-> RequiredPaths],
      [id |-> 2, paths |-> {"app/main.py"}],
      [id |-> 2, paths |-> {"app/database.py"}] }

\* orchestrator.py 399: the generator is suspended at yield repairer, after a
\* resumed sandbox run whose first review pass was accepted.
RepairInit ==
    /\ pc = "repairer"
    /\ events = <<"starting", "architecture_done", "implementer", "implementer_done",
                  "reviewer", "review_pass", "reviewer_done", "repairer">>
    /\ terminal = NoTerminal
    /\ faults = {}
    /\ runtime_mode = Text("sandbox")
    /\ start_stage = Text("implementer")
    /\ charter_override = FALSE
    /\ architecture_override = TRUE
    /\ run_status = "running"
    /\ session_ops = <<[op |-> "update_status", status |-> "running"]>>
    /\ \E b \in RepairBundles :
          /\ code = b
          /\ artifacts = <<[stage |-> "implementer", n |-> 0,
                            bundle |-> ImplementerAgentRun(1)],
                           [stage |-> "reviewer_pass", n |-> 1,
                            bundle |-> ImplementerAgentRun(1)]>>
          /\ review_artifact_for_completion = InitialReviewArtifact(b)
          /\ next_bundle_id = b.id + 1
    /\ charter = NoCharter
    /\ architecture = "override"
    /\ implementer_calls = 1
    /\ attempt = 1
    /\ review = NoReview
    /\ last_pass = [attempt |-> 1, approved |-> TRUE, security_score |-> 7,
                    outcome |-> "accepted", exit |-> "accepted", code_replaced |-> FALSE]
    /\ reviewer_calls = 1
    /\ patch_calls = 0
    /\ repair_agent_created = TRUE
    /\ repair_attempts = 0
    /\ escalation_attempts = 0
    /\ repaired = FALSE
    /\ affected_files = {}
    /\ current_code = NoBundle
    /\ latest_report = NoReport
    /\ evaluations = 0
    /\ last_evaluation = "none"
    /\ repair_patch_calls = 0
    /\ repair_result = NoRepair
    /\ repair_artifact_for_completion = NoRepair
    /\ repair_pass_index = 0
    /\ FunctionsIdle

RepairNext ==
    \/ RepairStart
    \/ RepairEvaluate
    \/ RepairPatch

RepairSpec == RepairInit /\ [][RepairNext]_vars /\ WF_vars(RepairNext)

RepairRunEnded == pc \in {"repair_returned", "repair_raised"}

\* C12: one run of the repair loop calls patch_files at most 5 times
\* (max_iterations 3 + escalation_iterations 2), and it ends: it returns a report
\* unless an evaluation or a patch raised.
C12_RepairLoopBoundedAndTerminates ==
    /\ [](repair_patch_calls <= 5 /\ evaluations <= 6)
    /\ <>RepairRunEnded
    /\ [](pc = "repair_raised" => faults \cap {"repair_evaluate", "repair_patch"} # {})
    /\ [](pc = "repair_returned" => repair_result # NoRepair)

\* A report returned after the five patches the two budgets allow.
C12_Witness ==
    /\ pc = "repair_returned"
    /\ repair_patch_calls = 5
    /\ repair_result.attempts = 5

\* C13: the report the repair loop returns has passed = TRUE exactly when the last
\* evaluation of the loop passed and the liveness re-check after it succeeded.
C13_PassedIffLastEvaluationPassed ==
    (pc = "repair_returned") =>
        /\ evaluations >= 1
        /\ repair_result.passed <=> (last_evaluation = "passed_live")

\* A passing report after an escalated fix, and so after failing evaluations.
C13_Witness ==
    /\ pc = "repair_returned"
    /\ repair_result.passed
    /\ repair_result.summary = "fixed_escalated"
    /\ evaluations = 5

\* C14: an evaluation that passed while the sandbox was not live counts as a
\* failure blamed on app/main.py: the loop goes on with a repair pass, or, with
\* its budgets spent, returns passed = FALSE; no report has passed = TRUE unless
\* the liveness re-check after the last evaluation succeeded.
C14_NotLiveSuccessIsFailure ==
    /\ (last_evaluation = "passed_not_live" /\ pc \in {"repair_patch", "repair_escalate"}) =>
          /\ latest_report = [passed |-> FALSE, failure_path |-> "app/main.py"]
          /\ repaired
    /\ (last_evaluation = "passed_not_live" /\ pc = "repair_returned") =>
          /\ ~repair_result.passed
          /\ repair_patch_calls = 5
    /\ (repair_result # NoRepair /\ repair_result.passed) => last_evaluation = "passed_live"

\* The first evaluation passed with the sandbox gone, and a repair pass follows.
C14_Witness ==
    /\ pc = "repair_patch"
    /\ last_evaluation = "passed_not_live"
    /\ evaluations = 1
    /\ repair_attempts = 1

EscalationPassRunning == pc \in {"repair_escalate", "repair_evaluate_escalated"}

FailingEvaluations == {"failed", "passed_not_live"}

\* C26: an escalation pass runs only after max_iterations targeted passes, each of
\* them followed by a failing evaluation (every pass of either kind starts straight
\* after a failing evaluation, and one evaluation separates two passes); no targeted
\* pass follows an escalation pass; and the report that says the checks passed after
\* escalated sandbox fixes is returned only from the passing evaluation that follows
\* an escalation pass.
C26_EscalationAfterTargetedPasses ==
    /\ [](EscalationPassRunning =>
            /\ escalation_attempts >= 1
            /\ repair_attempts - escalation_attempts = MAX_REPAIR_ITERATIONS
            /\ evaluations >= MAX_REPAIR_ITERATIONS + escalation_attempts)
    /\ [][(pc' \in {"repair_patch", "repair_escalate"} /\ pc' # pc) =>
            /\ pc \in {"repair_evaluate", "repair_evaluate_escalated"}
            /\ last_evaluation' \in FailingEvaluations
            /\ evaluations' = repair_patch_calls' + 1]_vars
    /\ [](escalation_attempts >= 1 => pc \notin {"repair_patch", "repair_evaluate"})
    /\ [][(pc' = "repair_returned" /\ pc' # pc /\ repair_result'.summary = "fixed_escalated") =>
            /\ pc = "repair_evaluate_escalated"
            /\ last_evaluation' = "passed_live"
            /\ repair_result'.passed
            /\ repair_result'.attempts > MAX_REPAIR_ITERATIONS]_vars

\* The first escalation pass is about to patch, after three targeted passes and the
\* four failing evaluations around them.
C26_Witness ==
    /\ pc = "repair_escalate"
    /\ escalation_attempts = 1
    /\ repair_patch_calls = MAX_REPAIR_ITERATIONS
    /\ evaluations = MAX_REPAIR_ITERATIONS + 1

(***************************************************************************)
(* Functions called on their own.  The pipeline is parked before its first *)
(* step; the specification draws the arguments and applies the function.   *)
(***************************************************************************)
PipelineParked ==
    /\ PipelineNotStarted
    /\ runtime_mode = NoneText
    /\ start_stage = Text("requirements")

\* artifacts.py 97: security_score: int = Field(ge=1, le=10)
MIN_SECURITY_SCORE == 1

MAX_SECURITY_SCORE == 10

\* Every report the reviewer LLM call can return, over the whole score range.
AllLLMReviews ==
    { [c EXCEPT !.approved = a, !.security_score = n] :
         c \in ReviewContents, a \in BOOLEAN,
         n \in MIN_SECURITY_SCORE..MAX_SECURITY_SCORE }

\* Files the validator reports failures for: none, one, two.
ValidatorFailureSets == {{}, {"app/routes.py"}, {"app/main.py", "app/models.py"}}

MergeInit ==
    /\ PipelineParked
    /\ SandboxHostEmpty
    /\ fn_pc = "called"
    /\ \E r \in AllLLMReviews, f \in ValidatorFailureSets :
          fn_input = [fn |-> "merge", review |-> r, failing |-> f]
    /\ fn_output = [fn |-> "none"]

\* reviewer_agent.py 91-96: the merge of the validator report into the review
MergeReturn ==
    /\ fn_pc = "called"
    /\ fn_input.fn = "merge"
    /\ fn_output' = [fn |-> "merge",
                     report |-> MergeDeterministicReport(fn_input.review, fn_input.failing)]
    /\ fn_pc' = "returned"
    /\ UNCHANGED <<pipelineVars, sandboxVars, fn_input>>

MergeSpec == MergeInit /\ [][MergeReturn]_vars

\* C15: merged with a validator report that has a failure, any reviewer report
\* (approved with score 10 included) comes out with approved = FALSE and
\* security_score <= 6; merged with one that has none, it keeps its approved and its
\* security_score.
C15_ValidatorFailureRejects ==
    (fn_pc = "returned" /\ fn_output.fn = "merge") =>
        IF fn_input.failing # {}
           THEN /\ ~fn_output.report.approved
                /\ fn_output.report.security_score <= 6
                /\ fn_output.report.security_score <= fn_input.review.security_score
           ELSE /\ fn_output.report.approved = fn_input.review.approved
                /\ fn_output.report.security_score = fn_input.review.security_score

\* An approved report with score 10 merged with a validator failure.
C15_Witness ==
    /\ fn_pc = "returned"
    /\ fn_output.fn = "merge"
    /\ fn_input.review.approved
    /\ fn_input.review.security_score = 10
    /\ fn_input.failing # {}
    /\ fn_output.report.security_score = 6

(***************************************************************************)
(* Generated code as data.  A path is the sequence of its characters, a    *)
(* file is a path with a content, a bundle (GeneratedCode) is a list of    *)
(* files with a list of dependencies.                                      *)
(***************************************************************************)
APP == <<"a", "p", "p", "/">>

MAIN_PY == APP \o <<"m", "a", "i", "n", ".", "p", "y">>

DATABASE_PY == APP \o <<"d", "a", "t", "a", "b", "a", "s", "e", ".", "p", "y">>

MODELS_PY == APP \o <<"m", "o", "d", "e", "l", "s", ".", "p", "y">>

SCHEMAS_PY == APP \o <<"s", "c", "h", "e", "m", "a", "s", ".", "p", "y">>

ROUTES_PY == APP \o <<"r", "o", "u", "t", "e", "s", ".", "p", "y">>

AUTH_PY == APP \o <<"a", "u", "t", "h", ".", "p", "y">>

Range(seq) == {seq[i] : i \in 1..Len(seq)}

StartsWith(s, prefix) ==
    /\ Len(s) >= Len(prefix)
    /\ SubSeq(s, 1, Len(prefix)) = prefix

RECURSIVE ReplaceAll(_, _, _)
\* str.replace(old, new): every occurrence, left to right, without overlap
ReplaceAll(s, old, new) ==
    IF Len(s) < Len(old)
       THEN s
       ELSE IF SubSeq(s, 1, Len(old)) = old
               THEN new \o ReplaceAll(SubSeq(s, Len(old) + 1, Len(s)), old, new)
               ELSE <<Head(s)>> \o ReplaceAll(Tail(s), old, new)

RECURSIVE LStrip(_, _)
\* str.lstrip(chars)
LStrip(s, chars) ==
    IF s # <<>> /\ Head(s) \in chars THEN LStrip(Tail(s), chars) ELSE s

RECURSIVE RStrip(_, _)
\* str.rstrip(chars)
RStrip(s, chars) ==
    IF s # <<>> /\ s[Len(s)] \in chars
       THEN RStrip(SubSeq(s, 1, Len(s) - 1), chars)
       ELSE s

\* str.strip(): white space off both ends
StripWhitespace(s) == LStrip(RStrip(s, {" "}), {" "})

RECURSIVE CollapseSlashes(_)
\* re.sub(r"/{2,}", "/", s)
CollapseSlashes(s) ==
    IF s = <<>>
       THEN <<>>
       ELSE IF Head(s) = "/"
               THEN <<"/">> \o CollapseSlashes(LStrip(Tail(s), {"/"}))
               ELSE <<Head(s)>> \o CollapseSlashes(Tail(s))

\* implementer_agent.py 49-58: ImplementerAgent._sanitize_relative_path
SanitizeRelativePath(path) ==
    LET forward == ReplaceAll(path, <<"\\">>, <<"/">>)
        rooted == LStrip(StripWhitespace(forward), {"/"})
        collapsed == CollapseSlashes(rooted)
        normalized == ReplaceAll(ReplaceAll(collapsed, <<".", ".", "/">>, <<>>),
                                 <<".", ".", "\\">>, <<>>)
    IN  IF normalized = <<>>
           THEN <<>>
           ELSE IF normalized[Len(normalized)] = "/"
                   THEN RStrip(normalized, {"/"})
                   ELSE normalized

\* implementer_agent.py 107: the files every plan ends up with
RequiredPathList == <<MAIN_PY, DATABASE_PY, MODELS_PY, SCHEMAS_PY, ROUTES_PY>>

\* implementer_agent.py 82: deps = ["fastapi", "sqlmodel", "uvicorn"]
BaselineDependencies == <<Text("fastapi"), Text("sqlmodel"), Text("uvicorn")>>

\* implementer_agent.py 83-85
AuthDependencies == <<Text("python-jose[cryptography]"), Text("passlib[bcrypt]")>>

\* implementer_agent.py 60-86: ImplementerAgent._fallback_plan; auth_required
\* says whether the architecture texts hold one of the auth keywords.
FallbackPlan(auth_required) ==
    [files |-> RequiredPathList \o (IF auth_required THEN <<AUTH_PY>> ELSE <<>>),
     dependencies |->
         BaselineDependencies \o (IF auth_required THEN AuthDependencies ELSE <<>>)]

\* implementer_agent.py 104: if len(normalized_files) >= 8: break
MAX_PLAN_FILES == 8

RECURSIVE NormalizeFiles(_, _)
\* implementer_agent.py 92-105: the loop over plan.files
NormalizeFiles(entries, normalized_files) ==
    IF entries = <<>>
       THEN normalized_files
       ELSE LET path == SanitizeRelativePath(Head(entries))
            IN  IF path = <<>> \/ path \in Range(normalized_files)
                   THEN NormalizeFiles(Tail(entries), normalized_files)
                   ELSE IF ~StartsWith(path, APP)
                           THEN NormalizeFiles(Tail(entries), normalized_files)
                           ELSE IF Len(normalized_files) + 1 >= MAX_PLAN_FILES
                                   THEN Append(normalized_files, path)
                                   ELSE NormalizeFiles(Tail(entries),
                                                       Append(normalized_files, path))

RECURSIVE AppendMissing(_, _)
\* implementer_agent.py 107-110 and 124-126: append what is not there yet
AppendMissing(items, list) ==
    IF items = <<>>
       THEN list
       ELSE AppendMissing(Tail(items),
                          IF Head(items) \in Range(list)
                             THEN list
                             ELSE Append(list, Head(items)))

\* implementer_agent.py 120: the plan's dependencies stripped, blank ones dropped
StrippedDependencies(dependencies) ==
    LET stripped == [i \in 1..Len(dependencies) |-> Strip(dependencies[i])]
        NotBlank(d) == d.base # ""
    IN  SelectSeq(stripped, NotBlank)

\* A normalisation that keeps the plan's own dependencies and adds nothing.
NormalizedDependenciesAsPlanned(dependencies, fallback_dependencies) ==
    StrippedDependencies(dependencies)

\* implementer_agent.py 120-126
NormalizedDependencies(dependencies, fallback_dependencies) ==
    LET deps == StrippedDependencies(dependencies)
    IN  AppendMissing(fallback_dependencies,
                      IF deps = <<>> THEN fallback_dependencies ELSE deps)

\* implementer_agent.py 88-128: ImplementerAgent._normalize_plan; auth_in_design
\* says whether design_document holds one of the keywords of line 114.
NormalizePlan(plan, auth_in_design, auth_required) ==
    LET fallback == FallbackPlan(auth_required)
        planned == NormalizeFiles(plan.files, <<>>)
        required == AppendMissing(RequiredPathList, planned)
        normalized_files ==
            IF /\ auth_in_design
               /\ AUTH_PY \notin Range(required)
               /\ AUTH_PY \in Range(fallback.files)
               THEN Append(required, AUTH_PY)
               ELSE required
    IN  [files |-> normalized_files,
         dependencies |-> NormalizedDependencies(plan.dependencies, fallback.dependencies)]

\* A plan taken from the LLM as it came: no fallback, no required files added.
GeneratePlanAsAnswered(llm_plan, plan_raised, auth_in_design, auth_required) ==
    [files |-> NormalizeFiles(llm_plan.files, <<>>),
     dependencies |-> NormalizedDependencies(llm_plan.dependencies, BaselineDependencies)]

\* implementer_agent.py 130-139: ImplementerAgent._generate_plan; the fallback
\* plan stands in when the LLM call raises.
GeneratePlan(llm_plan, plan_raised, auth_in_design, auth_required) ==
    NormalizePlan(IF plan_raised THEN FallbackPlan(auth_required) ELSE llm_plan,
                  auth_in_design, auth_required)

\* implementer_agent.py 271-290: ImplementerAgent.run, one generated text per
\* planned file
ImplementerGenerate(llm_plan, plan_raised, auth_in_design, auth_required) ==
    LET plan == GeneratePlan(llm_plan, plan_raised, auth_in_design, auth_required)
    IN  [files |-> [i \in 1..Len(plan.files) |->
                       [path |-> plan.files[i], content |-> "generated"]],
         dependencies |-> plan.dependencies]

\* orchestrator.py 266: GeneratedCode(files=review.final_code,
\* dependencies=code.dependencies)
AdoptFinalCode(bundle, final_code) ==
    [files |-> final_code, dependencies |-> bundle.dependencies]

FilePaths(bundle) == [i \in 1..Len(bundle.files) |-> bundle.files[i].path]

\* implementer_agent.py 218: current_map, a later file of the same path wins
CurrentMapContent(files, path) ==
    LET last == CHOOSE i \in 1..Len(files) :
                   /\ files[i].path = path
                   /\ \A j \in (i + 1)..Len(files) : files[j].path # path
    IN  files[last].content

\* implementer_agent.py 204-269: ImplementerAgent.patch_files; new_content is
\* the text the LLM returns for a patched file.
ImplementerPatchFiles(bundle, patch_requests, new_content) ==
    LET current_paths == Range(FilePaths(bundle)) \ {<<>>}
        patch_by_path ==
            {SanitizeRelativePath(patch_requests[i]) : i \in 1..Len(patch_requests)}
                \cap current_paths
        InUpdatedMap(f) == f.path \in current_paths
        ordered == SelectSeq(bundle.files, InUpdatedMap)
    IN  IF current_paths = {} \/ patch_by_path = {}
           THEN bundle
           ELSE [files |-> [i \in 1..Len(ordered) |->
                               [path |-> ordered[i].path,
                                content |->
                                    IF ordered[i].path \in patch_by_path
                                       THEN new_content
                                       ELSE CurrentMapContent(bundle.files,
                                                              ordered[i].path)]],
                 dependencies |-> bundle.dependencies]

(***************************************************************************)
(* The bundles of one run: the implementer generates one, each review pass *)
(* may adopt the reviewer's rewrite or patch files, each repair pass       *)
(* patches files.  fn_output holds the current bundle and the one the most *)
(* recent step started from, fn_input the arguments of that step.          *)
(***************************************************************************)
X_PY == <<"x", ".", "p", "y">>

\* "app/..././x.py"
NESTED_DOTS_PY == APP \o <<".", ".", ".", "/", ".", "/">> \o X_PY

\* "app/x.py ../"
TRAILING_DOTS_PY == APP \o X_PY \o <<" ", ".", ".", "/">>

\* "/app//models.py"
SLASHED_MODELS_PY == <<"/">> \o APP \o <<"/">> \o SubSeq(MODELS_PY, 5, Len(MODELS_PY))

\* "app\routes.py"
BACKSLASH_ROUTES_PY == <<"a", "p", "p", "\\">> \o SubSeq(ROUTES_PY, 5, Len(ROUTES_PY))

\* Nine distinct files, one more than a plan keeps.
LongPlanFiles ==
    [i \in 1..(MAX_PLAN_FILES + 1) |->
        APP \o <<"f">> \o [j \in 1..i |-> "x"] \o <<".", "p", "y">>]

\* The file lists of the plans the LLM returns.
LLMPlanFiles ==
    { <<>>,
      <<MAIN_PY>>,
      <<SLASHED_MODELS_PY, BACKSLASH_ROUTES_PY>>,
      <<X_PY, <<" ">>>>,
      <<APP \o X_PY, APP \o X_PY>>,
      <<NESTED_DOTS_PY>>,
      <<TRAILING_DOTS_PY>>,
      LongPlanFiles }

\* The dependency lists of the plans the LLM returns.
LLMPlanDependencies ==
    { <<>>,
      <<Text("requests")>>,
      <<[Text("fastapi") EXCEPT !.padded = TRUE], Text("")>>,
      <<[Text("sqlmodel") EXCEPT !.upper = TRUE], [Text("") EXCEPT !.padded = TRUE]>> }

\* What ImplementerAgent.run is called with and what its plan call returns;
\* a design document with an auth keyword makes the architecture hold one.
GenerateInputs ==
    { in \in [files : LLMPlanFiles, dependencies : LLMPlanDependencies,
              plan_raised : BOOLEAN, auth_in_design : BOOLEAN,
              auth_required : BOOLEAN] :
         /\ in.auth_in_design => in.auth_required
         /\ in.plan_raised => (in.files = <<>> /\ in.dependencies = <<>>) }

\* ReviewReport.final_code as the LLM returns it, when it is not empty.
FinalCodes ==
    { <<[path |-> MAIN_PY, content |-> "rewritten"],
        [path |-> ROUTES_PY, content |-> "rewritten"]>>,
      <<[path |-> X_PY, content |-> "rewritten"]>>,
      <<[path |-> MAIN_PY, content |-> "rewritten"],
        [path |-> MAIN_PY, content |-> "generated"]>>,
      <<[path |-> <<>>, content |-> "rewritten"],
        [path |-> MAIN_PY, content |-> "rewritten"]>> }

\* "app/absent.py", a file no bundle has
ABSENT_PY == APP \o <<"a", "b", "s", "e", "n", "t", ".", "p", "y">>

\* The paths of the patch requests of one call.
PatchRequestLists ==
    { <<MAIN_PY>>, <<SLASHED_MODELS_PY>>, <<ABSENT_PY>>, <<ABSENT_PY, ROUTES_PY>> }

NoCode == [files |-> <<>>, dependencies |-> <<>>]

BundleInit ==
    /\ PipelineParked
    /\ SandboxHostEmpty
    /\ fn_pc = "implementer"
    /\ \E in \in GenerateInputs :
          fn_input = [fn |-> "generate", plan |-> [files |-> in.files,
                                                   dependencies |-> in.dependencies],
                      plan_raised |-> in.plan_raised,
                      auth_in_design |-> in.auth_in_design,
                      auth_required |-> in.auth_required]
    /\ fn_output = [fn |-> "none"]

\* orchestrator.py 157-178: code = await imp_agent.run(architecture)
BundleGenerate ==
    /\ fn_pc = "implementer"
    /\ fn_input.fn = "generate"
    /\ fn_output' = [fn |-> "bundle",
                     code |-> ImplementerGenerate(fn_input.plan, fn_input.plan_raised,
                                                  fn_input.auth_in_design,
                                                  fn_input.auth_required),
                     before |-> NoCode,
                     attempt |-> 0,
                     patch_calls |-> 0]
    /\ fn_pc' = "reviewer"
    /\ UNCHANGED <<pipelineVars, sandboxVars, fn_input>>

\* orchestrator.py 264-278: the reviewer's rewrite becomes the code
BundleAdoptRewrite ==
    /\ fn_pc = "reviewer"
    /\ fn_output.attempt < MAX_REVIEW_ITERATIONS
    /\ \E final_code \in FinalCodes :
          /\ fn_input' = [fn |-> "adopt", final_code |-> final_code]
          /\ fn_output' = [fn_output EXCEPT
                              !.code = AdoptFinalCode(fn_output.code, final_code),
                              !.before = fn_output.code,
                              !.attempt = @ + 1]
    /\ UNCHANGED <<pipelineVars, sandboxVars, fn_pc>>

\* orchestrator.py 328-334: code = await imp_agent.patch_files(...)
BundleReviewPatch ==
    /\ fn_pc = "reviewer"
    /\ fn_output.attempt < MAX_REVIEW_ITERATIONS
    /\ \E requests \in PatchRequestLists :
          /\ fn_input' = [fn |-> "patch", patch_requests |-> requests]
          /\ fn_output' = [fn_output EXCEPT
                              !.code = ImplementerPatchFiles(fn_output.code, requests,
                                                             "patched"),
                              !.before = fn_output.code,
                              !.attempt = @ + 1]
    /\ UNCHANGED <<pipelineVars, sandboxVars, fn_pc>>

\* orchestrator.py 238-254, 306-320, 344-355: the review loop ends
BundleReviewDone ==
    /\ fn_pc = "reviewer"
    /\ fn_pc' = "repairer"
    /\ UNCHANGED <<pipelineVars, sandboxVars, fn_input, fn_output>>

\* repair_agent.py 222-228, 263-269: current_code = await
\* self.implementer.patch_files(...)
BundleRepairPatch ==
    /\ fn_pc = "repairer"
    /\ fn_output.patch_calls < MAX_REPAIR_ITERATIONS + ESCALATION_ITERATIONS
    /\ \E requests \in PatchRequestLists :
          /\ fn_input' = [fn |-> "patch", patch_requests |-> requests]
          /\ fn_output' = [fn_output EXCEPT
                              !.code = ImplementerPatchFiles(fn_output.code, requests,
                                                             "patched"),
                              !.before = fn_output.code,
                              !.patch_calls = @ + 1]
    /\ UNCHANGED <<pipelineVars, sandboxVars, fn_pc>>

\* orchestrator.py 406: code = GeneratedCode(files=repair_result.final_code,
\* dependencies=code.dependencies)
BundleRepairReturned ==
    /\ fn_pc = "repairer"
    /\ fn_pc' = "completed"
    /\ fn_output' = [fn_output EXCEPT
                        !.code = AdoptFinalCode(fn_output.code, fn_output.code.files)]
    /\ UNCHANGED <<pipelineVars, sandboxVars, fn_input>>

BundleNext ==
    \/ BundleGenerate
    \/ BundleAdoptRewrite
    \/ BundleReviewPatch
    \/ BundleReviewDone
    \/ BundleRepairPatch
    \/ BundleRepairReturned

BundleSpec == BundleInit /\ [][BundleNext]_vars

\* Paths that start with app/, that the sanitizer leaves as they are, and that
\* no two files of the bundle share.
WellFormedPaths(bundle) ==
    /\ \A i \in 1..Len(bundle.files) :
          /\ StartsWith(bundle.files[i].path, APP)
          /\ SanitizeRelativePath(bundle.files[i].path) = bundle.files[i].path
    /\ \A i, j \in 1..Len(bundle.files) :
          bundle.files[i].path = bundle.files[j].path => i = j

\* C16: every bundle of a run, whether generated, adopted from the reviewer's
\* rewrite, or patched in the review loop or the repair loop, has only paths that start
\* with app/, that are pairwise distinct, and that the path sanitizer leaves unchanged.
C16_BundlePathsWellFormed ==
    (fn_output.fn = "bundle") => WellFormedPaths(fn_output.code)

\* The requests of a patch call, as patch_files looks them up.
RequestedPaths ==
    {SanitizeRelativePath(fn_input.patch_requests[i]) :
        i \in 1..Len(fn_input.patch_requests)}

\* C17: patch_files returns the paths of the bundle it was given, in the same order,
\* none added and none removed; a file no request applies to keeps its content; and
\* requests that name only paths the bundle does not have change nothing.
C17_PatchFilesKeepsTheRest ==
    (fn_output.fn = "bundle" /\ fn_input.fn = "patch") =>
        /\ FilePaths(fn_output.code) = FilePaths(fn_output.before)
        /\ \A i \in 1..Len(fn_output.before.files) :
              fn_output.before.files[i].path \notin RequestedPaths =>
                  /\ i <= Len(fn_output.code.files)
                  /\ fn_output.code.files[i] = fn_output.before.files[i]
        /\ (RequestedPaths \cap Range(FilePaths(fn_output.before)) = {}) =>
              fn_output.code = fn_output.before

\* C18: the generated bundle lists fastapi, sqlmodel and uvicorn, and every later
\* bundle of the run (adopted rewrite, patched in review, patched in repair, returned
\* by repair) lists every dependency of the bundle it was made from.
C18_BaselineDependenciesKept ==
    (fn_output.fn = "bundle") =>
        /\ Range(BaselineDependencies) \subseteq Range(fn_output.code.dependencies)
        /\ Range(fn_output.before.dependencies)
              \subseteq Range(fn_output.code.dependencies)

\* A run that generated from a plan naming only requests, went through three review
\* steps and five repair patches, the last of which changed a file.
C18_Witness ==
    /\ fn_pc = "completed"
    /\ fn_output.attempt = MAX_REVIEW_ITERATIONS
    /\ fn_output.patch_calls = MAX_REPAIR_ITERATIONS + ESCALATION_ITERATIONS
    /\ fn_input.fn = "patch"
    /\ fn_output.code.files # fn_output.before.files
    /\ Text("requests") \in Range(fn_output.code.dependencies)

(***************************************************************************)
(* The sandbox host: one directory per project under SANDBOX_HOST_ROOT     *)
(* with the project's .sandbox-runtime.json in it, docker containers, and  *)
(* the ports of the host.  A deployment writes the bundle and then         *)
(* launches; route handlers run on a thread pool, so the deployments of    *)
(* two workers interleave between the two calls.                           *)
(***************************************************************************)
\* sandbox.py 45
SANDBOX_PORT_RANGE_START == 9100

\* sandbox.py 46
SANDBOX_PORT_RANGE_END == 9199

\* Launches of one behaviour.
MaxLaunches == 3

\* The ports another process of the host may bind.
HostPortChoices == {SANDBOX_PORT_RANGE_START, SANDBOX_PORT_RANGE_START + 1}

\* The ports bound on the host: by other processes and by the containers (-p port:9000).
BoundPorts(cs, others) == others \cup {c.port : c \in cs}

\* A bind check that always succeeds.
PortAssumedAvailable(port, bound) == TRUE

\* sandbox.py 230-237: _is_host_port_available, bind(("127.0.0.1", port)) succeeds
IsHostPortAvailable(port, bound) == port \notin bound

\* sandbox.py 240-256: _allocate_sandbox_port; existing is the project's runtime info,
\* infos the runtime infos of all projects; ok = FALSE is the HTTPException of 256.
AllocateSandboxPort(existing, infos, bound) ==
    IF existing.present /\ IsHostPortAvailable(existing.port, bound)
       THEN [ok |-> TRUE, port |-> existing.port, reused |-> TRUE]
       ELSE LET reserved_ports == {infos[q].port : q \in {r \in Projects : infos[r].present}}
                free == {port \in SANDBOX_PORT_RANGE_START..SANDBOX_PORT_RANGE_END :
                            /\ port \notin reserved_ports
                            /\ IsHostPortAvailable(port, bound)}
            IN  IF free = {}
                   THEN [ok |-> FALSE, port |-> 0, reused |-> FALSE]
                   ELSE [ok |-> TRUE,
                         port |-> CHOOSE port \in free : \A other \in free : port <= other,
                         reused |-> FALSE]

\* sandbox.py 301-304: _stop_project_sandbox, docker rm -f of the container named in
\* the runtime info; without runtime info the name is a new one
\* (_sandbox_container_name, 102-103, ends in a random suffix) that no container has.
StopProjectSandbox(cs, info, project) ==
    IF info.present
       THEN {c \in cs : c.name # info.container_name}
       ELSE cs

\* test_runner.py 91-94: _live_sandbox_check calls _write_sandbox_bundle and
\* _launch_project_sandbox with no await between them, so the event loop runs no
\* other pipeline run until the launch returned; the thread pool is not held back.
EventLoopFree(w) ==
    w \in Runs => \A r \in Runs \ {w} : deployments[r].pc = "idle"

\* sandbox.py 1520-1531: _write_sandbox_bundle, shutil.rmtree(sandbox_dir) takes the
\* project's .sandbox-runtime.json with it
WriteSandboxBundle(w, p) ==
    /\ deployments[w].pc = "idle"
    /\ w \in Runs => p = RunProject
    /\ EventLoopFree(w)
    /\ launches < MaxLaunches
    /\ runtime_infos' = [runtime_infos EXCEPT ![p] = NoRuntimeInfo]
    /\ host_dirs' = [host_dirs EXCEPT ![p] = w]
    /\ deployments' = [deployments EXCEPT ![w] = [pc |-> "bundle_written", project |-> p]]
    /\ UNCHANGED <<pipelineVars, fnVars, containers, host_ports, allocation, launches>>

\* sandbox.py 1626-1670: _launch_project_sandbox; container_name is new (1628), docker
\* run succeeds or fails
LaunchProjectSandbox(w) ==
    /\ deployments[w].pc = "bundle_written"
    /\ LET p == deployments[w].project
           container_name == launches + 1
           stopped == StopProjectSandbox(containers, runtime_infos[p], p)
           cleared == {c \in stopped : c.name # container_name}
           bound == BoundPorts(cleared, host_ports)
           allocated == AllocateSandboxPort(runtime_infos[p], runtime_infos, bound)
       IN  IF ~allocated.ok
              THEN /\ containers' = cleared
                   /\ UNCHANGED <<runtime_infos, allocation>>
              ELSE /\ allocation' = [project |-> p, port |-> allocated.port,
                                     reused |-> allocated.reused, bound |-> bound]
                   /\ \E started \in BOOLEAN :
                         IF started
                            THEN /\ containers' = cleared \cup
                                       {[name |-> container_name, project |-> p,
                                         port |-> allocated.port,
                                         bundle |-> host_dirs[p], launched_by |-> w]}
                                 /\ runtime_infos' =
                                       [runtime_infos EXCEPT ![p] =
                                           [present |-> TRUE,
                                            container_name |-> container_name,
                                            port |-> allocated.port]]
                            ELSE /\ containers' = cleared
                                 /\ runtime_infos' =
                                       [runtime_infos EXCEPT ![p] = NoRuntimeInfo]
    /\ launches' = launches + 1
    /\ deployments' = [deployments EXCEPT ![w] = [pc |-> "idle", project |-> "none"]]
    /\ UNCHANGED <<pipelineVars, fnVars, host_ports, host_dirs>>

\* sandbox.py 230-237: another process of the host binds a port, after which
\* bind(("127.0.0.1", port)) raises OSError
HostBindsPort(port) ==
    /\ port \notin BoundPorts(containers, host_ports)
    /\ host_ports' = host_ports \cup {port}
    /\ UNCHANGED <<pipelineVars, fnVars, deployments, runtime_infos, containers,
                   host_dirs, allocation, launches>>

SandboxInit == PipelineParked /\ FunctionsIdle

SandboxNext ==
    \/ \E w \in Workers, p \in Projects : WriteSandboxBundle(w, p)
    \/ \E w \in Workers : LaunchProjectSandbox(w)
    \/ \E port \in HostPortChoices : HostBindsPort(port)

SandboxSpec == SandboxInit /\ [][SandboxNext]_vars

C20_AtMostOneContainerPerProject ==
    \A p \in Projects : Cardinality({c \in containers : c.project = p}) <= 1

\* C21: deployments of one project do not interleave: while one worker is between
\* writing its bundle and launching, no other worker writes or launches for that
\* project, and every container serves the bundle written by the worker that launched
\* it.
C21_ProjectDeploymentsSerialized ==
    /\ \A v, w \in Workers :
          (/\ deployments[v].pc = "bundle_written"
           /\ deployments[w].pc = "bundle_written"
           /\ deployments[v].project = deployments[w].project) => v = w
    /\ \A c \in containers : c.bundle = c.launched_by

(***************************************************************************)
(* Cancellation.  The consumer closes the stream while the generator is    *)
(* suspended at a yield (GeneratorExit is raised there), or its task is    *)
(* cancelled while RepairAgent.run awaits patch_files (CancelledError).    *)
(***************************************************************************)
\* The yields of run_pipeline_generator and the awaits of RepairAgent.run that
\* suspend the task.
SuspensionPoints ==
    {"init", "starting", "requirements", "requirements_done",
     "resume_requirements_done", "architecture", "architecture_done", "implementer",
     "implementer_done", "reviewer", "review_pass", "revision", "reviewer_done",
     "repairer", "repair_patch", "repair_escalate", "repair_revision",
     "repairer_done", "completed", "error"}

\* orchestrator.py 505-509: the only handler around the body is `except Exception`,
\* which catches neither GeneratorExit nor CancelledError, and no finally clause
\* exists (neither here nor in RepairAgent.run, 188-301): the run ends where it was
\* suspended and nothing else is executed.
Cancel ==
    /\ pc \in SuspensionPoints
    /\ pc' = "cancelled"
    /\ UNCHANGED <<events, terminal, faults, inputVars, dbVars, stageVars, reviewVars,
                   repairVars, fnVars, sandboxVars>>

CancelNext == Next \/ Cancel

CancelSpec == Init /\ [][CancelNext]_vars

\* repair_agent.py 90-99, 101-128: the latest evaluation passed and _is_sandbox_live
\* answered that the project's container serves; nothing that runs after it stops
\* the container.
SandboxContainerRunning == last_evaluation = "passed_live"

\* C22: a run cancelled at a suspension point has stopped there, and no sandbox
\* container of the project is running afterwards.
C22_CancelledRunLeavesNoContainer ==
    (pc = "cancelled") => ~SandboxContainerRunning

\* Bundles some ArtifactRecord of the run holds.
RecordedBundles == {artifacts[i].bundle : i \in 1..Len(artifacts)}

\* C23: when a run has ended without any exception, the bundle that replaced the
\* generated one (and, while the review loop runs, every bundle that replaced an
\* earlier one) is held by an ArtifactRecord of the run; and the records of a run only
\* grow, each step leaving the rows already there as they are.
C23_ReplacementsRecorded ==
    /\ (Exhausted /\ faults = {} /\ code \notin GeneratedBundles) =>
          code \in RecordedBundles
    /\ (pc \in {"reviewer", "review_pass", "revision", "reviewer_done"} /\ faults = {}) =>
          \A id \in 2..(code.id - 1) : \E b \in RecordedBundles : b.id = id

\* The rows of ArtifactRecord are only added to.
ArtifactRecordsInsertOnly ==
    [][/\ Len(artifacts') >= Len(artifacts)
       /\ SubSeq(artifacts', 1, Len(artifacts)) = artifacts]_vars

\* ---------------------------------------------------------------------------
\* The path sanitizer on its own: ImplementerAgent._sanitize_relative_path applied to
\* every short path over an alphabet with a letter, a dot, both slashes and a blank.

PathAlphabet == {"a", ".", "/", "\\", " "}

MaxPathLen == 5

RawPaths == UNION {[1..n -> PathAlphabet] : n \in 0..MaxPathLen}

SanitizeInit ==
    /\ PipelineParked
    /\ SandboxHostEmpty
    /\ fn_pc = "called"
    /\ \E path \in RawPaths : fn_input = [fn |-> "sanitize", path |-> path]
    /\ fn_output = [fn |-> "none"]

\* implementer_agent.py 49-58
SanitizeReturn ==
    /\ fn_pc = "called"
    /\ fn_input.fn = "sanitize"
    /\ fn_output' = [fn |-> "sanitize", path |-> SanitizeRelativePath(fn_input.path)]
    /\ fn_pc' = "returned"
    /\ UNCHANGED <<pipelineVars, sandboxVars, fn_input>>

SanitizeSpec == SanitizeInit /\ [][SanitizeReturn]_vars

\* A path segment (between slashes, or at an end of the path) that is exactly "..".
HasDotDotSegment(s) ==
    \E i \in 1..(Len(s) - 1) :
        /\ s[i] = "." /\ s[i + 1] = "."
        /\ (i = 1 \/ s[i - 1] = "/")
        /\ (i + 1 = Len(s) \/ s[i + 2] = "/")

HasRepeatedSlash(s) == \E i \in 1..(Len(s) - 1) : s[i] = "/" /\ s[i + 1] = "/"

SlashFree(s) ==
    /\ "\\" \notin Range(s)
    /\ s # <<>> => (s[1] # "/" /\ s[Len(s)] # "/")
    /\ ~HasRepeatedSlash(s)

\* C24: the path sanitizer is idempotent, and its output never has a ".." segment, a
\* backslash, a leading or trailing slash, or a repeated slash.
C24_SanitizerIdempotentAndClean ==
    (fn_pc = "returned" /\ fn_output.fn = "sanitize") =>
        /\ SanitizeRelativePath(fn_output.path) = fn_output.path
        /\ ~HasDotDotSegment(fn_output.path)
        /\ SlashFree(fn_output.path)

\* ---------------------------------------------------------------------------
\* The sandbox source normalizer, sandbox.py 955-1370.  A source text is the list of
\* its lines (the text split at line feeds, so a text that ends with a line feed has an
\* empty last line) and a line is the list of its tokens.  The lines drawn hold no
\* `from datetime import`, no `sa_column=` and no trailing blanks, and the paths drawn
\* end with none of services.py, service.py, repository.py: for these sources
\* _rewrite_datetime_type_name_collisions returns at 806-807,
\* _rewrite_inline_field_sa_column_conflicts at 876-877, and the steps at 1024-1051 and
\* 1145-1368 are skipped.

INDENT == "    "

BLANK_LINE == <<>>

IMPORT_GET_DB == <<"from .database import get_db">>

BIND_GET_DB == <<"metadata.create_all(", "bind=get_db().bind", ")">>

ROOT_VALIDATOR == <<INDENT, "@root_validator">>

FIELD_INLINE == <<INDENT, "code: str = ", "Field(", "pattern=", "'a', ", "pattern=", "'b'", ")">>

FIELD_OPEN == <<INDENT, "name: str = ", "Field(">>

PATTERN_ARGUMENT == <<INDENT, INDENT, "pattern=", "'a',">>

FIELD_CLOSE == <<INDENT, ")">>

DEF_GET_ENGINE == <<"def get_engine", "():">>

CLASS_TOKEN == <<"class Token(", "BaseModel", "):">>

ROUTER_LIST == <<"router_list", " = ", "[", "users_router", "]">>

DEF_HASH_PASSWORD == <<"def hash_password(", "password", "):">>

DEF_CREATE_ACCESS_TOKEN == <<"def create_access_token(", "*, subject:", " str", "):">>

LineVocabulary ==
    {BLANK_LINE, IMPORT_GET_DB, BIND_GET_DB, ROOT_VALIDATOR, FIELD_INLINE, FIELD_OPEN,
     PATTERN_ARGUMENT, FIELD_CLOSE, DEF_GET_ENGINE, CLASS_TOKEN, ROUTER_LIST,
     DEF_HASH_PASSWORD, DEF_CREATE_ACCESS_TOKEN}

MaxSourceLines == 3

SourceTexts == UNION {[1..n -> LineVocabulary] : n \in 1..MaxSourceLines}

NOTES_MD == <<"n", "o", "t", "e", "s", ".", "m", "d">>

UPPER_AUTH_PY == <<"A", "P", "P", "\\", "A", "U", "T", "H", ".", "P", "Y">>

SourcePaths ==
    {DATABASE_PY, SCHEMAS_PY, ROUTES_PY, AUTH_PY, MODELS_PY, NOTES_MD, UPPER_AUTH_PY}

UpperLetters ==
    <<"A", "B", "C", "D", "E", "F", "G", "H", "I", "J", "K", "L", "M",
      "N", "O", "P", "Q", "R", "S", "T", "U", "V", "W", "X", "Y", "Z">>

LowerLetters ==
    <<"a", "b", "c", "d", "e", "f", "g", "h", "i", "j", "k", "l", "m",
      "n", "o", "p", "q", "r", "s", "t", "u", "v", "w", "x", "y", "z">>

\* str.lower()
LowerCase(s) ==
    [i \in 1..Len(s) |->
        IF \E k \in 1..Len(UpperLetters) : UpperLetters[k] = s[i]
           THEN LowerLetters[CHOOSE k \in 1..Len(UpperLetters) : UpperLetters[k] = s[i]]
           ELSE s[i]]

\* str.endswith(suffix)
EndsWith(s, suffix) ==
    /\ Len(s) >= Len(suffix)
    /\ SubSeq(s, Len(s) - Len(suffix) + 1, Len(s)) = suffix

DOT_PY == <<".", "p", "y">>

\* `token in text`
ContainsToken(text, token) == \E i \in 1..Len(text) : token \in Range(text[i])

\* `first second in text`, for a phrase of two tokens
ContainsPhrase(text, first, second) ==
    \E i \in 1..Len(text) : \E k \in 1..(Len(text[i]) - 1) :
        text[i][k] = first /\ text[i][k + 1] = second

\* re.search(r"(?m)^name\s*=", text)
AssignsName(text, name) ==
    \E i \in 1..Len(text) :
        Len(text[i]) >= 2 /\ text[i][1] = name /\ text[i][2] = " = "

\* text.replace(old, new): in every line
ReplaceInText(text, old, new) ==
    [i \in 1..Len(text) |-> ReplaceAll(text[i], old, new)]

\* line.replace(old, new, 1)
ReplaceFirstInLine(line, old, new) ==
    IF old \in Range(line)
       THEN LET k == CHOOSE k \in 1..Len(line) :
                        line[k] = old /\ \A j \in 1..(k - 1) : line[j] # old
            IN  SubSeq(line, 1, k - 1) \o new \o SubSeq(line, k + 1, Len(line))
       ELSE line

\* text.replace(old, new, 1)
ReplaceFirstInText(text, old, new) ==
    IF ContainsToken(text, old)
       THEN LET i == CHOOSE i \in 1..Len(text) :
                        old \in Range(text[i]) /\ \A j \in 1..(i - 1) : old \notin Range(text[j])
            IN  [j \in 1..Len(text) |->
                    IF j = i THEN ReplaceFirstInLine(text[j], old, new) ELSE text[j]]
       ELSE text

RECURSIVE DropBlankLines(_)
\* the lines after the blank lines a text starts with
DropBlankLines(text) ==
    IF text # <<>> /\ Head(text) = BLANK_LINE THEN DropBlankLines(Tail(text)) ELSE text

RECURSIVE RewriteRootValidators(_)
\* sandbox.py 960: re.sub(r"@root_validator\s*$", ..., flags=re.MULTILINE); \s* runs
\* over the line feeds of the blank lines that follow, up to the last line feed before
\* text that is not white space, or to the end of the text
RewriteRootValidators(text) ==
    IF text = <<>>
       THEN <<>>
       ELSE LET line == Head(text)
            IN  IF line # <<>> /\ line[Len(line)] = "@root_validator"
                   THEN <<line \o <<"(skip_on_failure=True)">>>>
                        \o RewriteRootValidators(DropBlankLines(Tail(text)))
                   ELSE <<line>> \o RewriteRootValidators(Tail(text))

\* str.splitlines(): the lines, without the empty last line of a text that ends with a
\* line feed; "\n".join(lines) of no line is the empty text
SplitLines(text) ==
    IF text[Len(text)] = BLANK_LINE /\ Len(text) > 1
       THEN SubSeq(text, 1, Len(text) - 1)
       ELSE text

OpenTokens ==
    {"metadata.create_all(", "Field(", "class Token(", "def hash_password(",
     "def create_access_token(", "def _sandbox_create_access_token_impl("}

CloseTokens == {")", "):"}

RECURSIVE ParenBalance(_)
\* line.count("(") - line.count(")")
ParenBalance(line) ==
    IF line = <<>>
       THEN 0
       ELSE (IF Head(line) \in OpenTokens THEN 1 ELSE IF Head(line) \in CloseTokens THEN -1 ELSE 0)
            + ParenBalance(Tail(line))

\* sandbox.py 996-1022 for a block without sa_column=
RewriteBlockLine(line) ==
    LET stripped == LStrip(line, {INDENT})
    IN  IF stripped # <<>> /\ Head(stripped) = "pattern="
           THEN ReplaceFirstInLine(line, "pattern=", <<"regex=">>)
           ELSE line

RECURSIVE RewriteFieldLines(_, _)
\* sandbox.py 968-1035: `balance` is positive inside the block of a Field( call that is
\* still open
RewriteFieldLines(lines, balance) ==
    IF lines = <<>>
       THEN <<>>
       ELSE LET line == Head(lines)
            IN  IF balance > 0
                   THEN <<RewriteBlockLine(line)>>
                        \o RewriteFieldLines(Tail(lines), balance + ParenBalance(line))
                   ELSE IF "Field(" \notin Range(line)
                           THEN <<line>> \o RewriteFieldLines(Tail(lines), 0)
                           ELSE IF ParenBalance(line) <= 0
                                   THEN <<ReplaceFirstInLine(line, "pattern=", <<"regex=">>)>>
                                        \o RewriteFieldLines(Tail(lines), 0)
                                   ELSE <<RewriteBlockLine(line)>>
                                        \o RewriteFieldLines(Tail(lines), ParenBalance(line))

RECURSIVE RStripText(_)
\* str.rstrip() of a text whose lines end with no blank
RStripText(text) ==
    IF Len(text) > 1 /\ text[Len(text)] = BLANK_LINE
       THEN RStripText(SubSeq(text, 1, Len(text) - 1))
       ELSE text

\* text.rstrip() + "\n\n" + the lines + "\n"
AppendLines(text, lines) == RStripText(text) \o <<BLANK_LINE>> \o lines \o <<BLANK_LINE>>

ALIAS_COMMENT == <<"# Backwards-compatible aliases used by generated route modules.">>

ENGINE_COMMENT ==
    <<"# Expose a module-level engine for generated apps that import it directly.">>

ROUTER_COMMENT == <<"# Sandbox compatibility export for generated route modules.">>

\* sandbox.py 1053-1060
NormalizeDatabaseModule(text) ==
    IF ContainsToken(text, "def get_engine") /\ ~AssignsName(text, "engine")
       THEN AppendLines(text, <<ENGINE_COMMENT, <<"engine", " = ", "get_engine()">>>>)
       ELSE text

\* sandbox.py 1062-1091
NormalizeSchemasModule(text) ==
    LET after_request ==
            IF /\ ContainsToken(text, "class CalculationCreate(")
               /\ ~(ContainsToken(text, "class CalculationRequest(")
                    \/ AssignsName(text, "CalculationRequest"))
               THEN AppendLines(text,
                        <<<<"# Backwards-compatible alias used by some generated route modules.">>,
                          <<"CalculationRequest", " = ", "CalculationCreate">>>>)
               ELSE text
        Has(class, name) ==
            ContainsToken(after_request, class) \/ AssignsName(after_request, name)
        token_alias ==
            IF Has("class Token(", "Token") /\ ~Has("class TokenResponse(", "TokenResponse")
               THEN <<<<"TokenResponse", " = ", "Token">>>>
               ELSE <<>>
        login_alias ==
            IF Has("class LoginRequest(", "LoginRequest")
               /\ ~Has("class TokenRequest(", "TokenRequest")
               THEN <<<<"TokenRequest", " = ", "LoginRequest">>>>
               ELSE <<>>
        auth_aliases == token_alias \o login_alias
    IN  IF auth_aliases # <<>>
           THEN AppendLines(after_request, <<ALIAS_COMMENT>> \o auth_aliases)
           ELSE after_request

\* sandbox.py 1093-1111
NormalizeRoutesModule(text) ==
    LET has_router_list ==
            \E i \in 1..Len(text) :
                /\ Len(text[i]) >= 3
                /\ text[i][1] = "router_list" /\ text[i][2] = " = " /\ text[i][3] = "["
        has_api_router == AssignsName(text, "api_router")
        has_get_router ==
            \E i \in 1..Len(text) : text[i] # <<>> /\ text[i][1] = "def get_router("
        with_api_router ==
            IF has_router_list /\ ~has_api_router
               THEN AppendLines(text,
                        <<ROUTER_COMMENT,
                          <<"api_router", " = ", "APIRouter()">>,
                          <<"for _router in router_list:">>,
                          <<INDENT, "api_router.include_router(_router)">>>>)
               ELSE text
    IN  IF has_router_list /\ ~has_get_router
           THEN RStripText(with_api_router)
                \o <<BLANK_LINE, <<"def get_router(", "):">>,
                     <<INDENT, "return api_router">>, BLANK_LINE>>
           ELSE with_api_router

\* sandbox.py 1113-1143
NormalizeAuthModule(text) ==
    LET renamed ==
            IF /\ ContainsPhrase(text, "def create_access_token(", "*, subject:")
               /\ ~ContainsToken(text, "def _sandbox_create_access_token_impl(")
               THEN ReplaceFirstInText(text, "def create_access_token(",
                                       <<"def _sandbox_create_access_token_impl(">>)
               ELSE text
        Has(def, name) == ContainsToken(renamed, def) \/ AssignsName(renamed, name)
        hash_alias ==
            IF Has("def hash_password(", "hash_password")
               /\ ~Has("def get_password_hash(", "get_password_hash")
               THEN <<<<"get_password_hash", " = ", "hash_password">>>>
               ELSE <<>>
        user_alias ==
            IF Has("def get_current_user(", "get_current_user")
               /\ ~Has("def current_user(", "current_user")
               THEN <<<<"current_user", " = ", "get_current_user">>>>
               ELSE <<>>
        token_wrapper ==
            IF ContainsToken(renamed, "def _sandbox_create_access_token_impl(")
               THEN <<<<"def create_access_token(", "subject=None, expires_delta=None", "):">>,
                      <<INDENT, "if isinstance(subject, dict):">>,
                      <<INDENT, INDENT, "subject = subject.get('sub')">>,
                      <<INDENT, "return _sandbox_create_access_token_impl(subject=str(subject), expires_delta=expires_delta)">>>>
               ELSE <<>>
        auth_aliases == hash_alias \o user_alias \o token_wrapper
    IN  IF auth_aliases # <<>>
           THEN AppendLines(renamed, <<ALIAS_COMMENT>> \o auth_aliases)
           ELSE renamed

\* sandbox.py 955-1370: _normalize_sandbox_source
NormalizeSandboxSource(path, content) ==
    LET normalized_path == LowerCase(ReplaceAll(path, <<"\\">>, <<"/">>))
        Suffix(name) == SubSeq(name, Len(APP) + 1, Len(name))
        with_engine ==
            ReplaceInText(content, IMPORT_GET_DB, IMPORT_GET_DB \o <<", engine">>)
        with_bind == ReplaceInText(with_engine, <<"bind=get_db().bind">>, <<"bind=engine">>)
        validators == RewriteRootValidators(with_bind)
        fields ==
            IF EndsWith(normalized_path, DOT_PY)
               THEN LET rewritten == RewriteFieldLines(SplitLines(validators), 0)
                    IN  IF rewritten = <<>> THEN <<BLANK_LINE>> ELSE rewritten
               ELSE validators
        database ==
            IF EndsWith(normalized_path, Suffix(DATABASE_PY))
               THEN NormalizeDatabaseModule(fields) ELSE fields
        schemas ==
            IF EndsWith(normalized_path, Suffix(SCHEMAS_PY))
               THEN NormalizeSchemasModule(database) ELSE database
        routes ==
            IF EndsWith(normalized_path, Suffix(ROUTES_PY))
               THEN NormalizeRoutesModule(schemas) ELSE schemas
    IN  IF EndsWith(normalized_path, Suffix(AUTH_PY))
           THEN NormalizeAuthModule(routes) ELSE routes

NormalizeInit ==
    /\ PipelineParked
    /\ SandboxHostEmpty
    /\ fn_pc = "called"
    /\ \E path \in SourcePaths, content \in SourceTexts :
          fn_input = [fn |-> "normalize", path |-> path, content |-> content]
    /\ fn_output = [fn |-> "none"]

\* sandbox.py 1538-1545: the content written for one file of the bundle
NormalizeReturn ==
    /\ fn_pc = "called"
    /\ fn_input.fn = "normalize"
    /\ fn_output' = [fn |-> "normalize",
                     content |-> NormalizeSandboxSource(fn_input.path, fn_input.content)]
    /\ fn_pc' = "returned"
    /\ UNCHANGED <<pipelineVars, sandboxVars, fn_input>>

NormalizeSpec == NormalizeInit /\ [][NormalizeReturn]_vars

\* C25: the sandbox source normalizer is idempotent: normalizing the text it returned
\* for a path, under the same path, returns that text again.
C25_SourceNormalizerIdempotent ==
    (fn_pc = "returned" /\ fn_output.fn = "normalize") =>
        NormalizeSandboxSource(fn_input.path, fn_output.content) = fn_output.content

\* ---------------------------------------------------------------------------
\* The patch requests of a targeted repair pass as data: the failures of a
\* TestRunReport, the requests the test runner and the repair agent build from them,
\* and the request patch_files keeps for each file.

SERVICE_PY == APP \o <<"s", "e", "r", "v", "i", "c", "e", ".", "p", "y">>

SERVICES_PY == APP \o <<"s", "e", "r", "v", "i", "c", "e", "s", ".", "p", "y">>

NoPath == <<>>

\* test_runner.py 42-68, 398, 440-466: failures TestRunner.run reports
TestFailures ==
    {[check |-> "syntax", message |-> "invalid syntax", file_path |-> ROUTES_PY,
      line_number |-> 7, patchable |-> TRUE],
     [check |-> "import_smoke", message |-> "No module named 'app.db'",
      file_path |-> MAIN_PY, line_number |-> 3, patchable |-> TRUE],
     [check |-> "import_smoke", message |-> "Runtime smoke test timed out",
      file_path |-> NoPath, line_number |-> 0, patchable |-> FALSE],
     [check |-> "endpoint_smoke", message |-> "GET /items returned 500",
      file_path |-> NoPath, line_number |-> 0, patchable |-> TRUE],
     [check |-> "endpoint_smoke", message |-> "GET /items returned 500",
      file_path |-> ROUTES_PY, line_number |-> 12, patchable |-> TRUE]}

MaxFailures == 3

FailureLists == UNION {[1..n -> TestFailures] : n \in 1..MaxFailures}

\* test_runner.py 505-506: the report does not pass
Blocking(failure) == failure.patchable \/ failure.check = "syntax"

RepairCodePaths == {RequiredPathList, <<DATABASE_PY, MAIN_PY>>}

\* f"Fix {failure.check} failure{loc}: {failure.message}" (test_runner.py 481-482,
\* repair_agent.py 59-60)
FixInstruction(failure) ==
    [text |-> "Fix", check |-> failure.check, line_number |-> failure.line_number,
     message |-> failure.message]

RECURSIVE DistinctInOrder(_)
\* the elements of a list, each kept where it first occurs: the keys of a dict
DistinctInOrder(s) ==
    IF s = <<>>
       THEN <<>>
       ELSE LET Other(x) == x # Head(s)
            IN  <<Head(s)>> \o DistinctInOrder(SelectSeq(Tail(s), Other))

\* by_path: one request per path, with the instructions of its entries in order
RequestsByPath(entries, reason) ==
    LET paths == DistinctInOrder([i \in 1..Len(entries) |-> entries[i].path])
    IN  [k \in 1..Len(paths) |->
            LET At(entry) == entry.path = paths[k]
                own == SelectSeq(entries, At)
            IN  [path |-> paths[k], reason |-> reason,
                 instructions |-> [i \in 1..Len(own) |-> FixInstruction(own[i].failure)]]]

RUNNER_REASON == "Deterministic tests failed for this file"

FALLBACK_REASON == "Runtime repair loop found startup or endpoint smoke failures"

\* test_runner.py 470-491: TestRunner._build_patch_requests
TestRunnerBuildPatchRequests(failures) ==
    LET Usable(failure) == failure.patchable /\ failure.file_path # NoPath
        usable == SelectSeq(failures, Usable)
    IN  RequestsByPath([i \in 1..Len(usable) |->
                           [path |-> usable[i].file_path, failure |-> usable[i]]],
                       RUNNER_REASON)

\* A selection that knows no candidate files.
FailurePathOnly(code_paths, failure) == failure.file_path

FallbackCandidatePaths == <<ROUTES_PY, MAIN_PY, SCHEMAS_PY, MODELS_PY, SERVICE_PY, SERVICES_PY>>

\* repair_agent.py 41-50: _select_fallback_path; NoPath when it returns None
SelectFallbackPathIn(code_paths, failure) ==
    IF failure.file_path # NoPath
       THEN failure.file_path
       ELSE LET hits == {i \in 1..Len(FallbackCandidatePaths) :
                            FallbackCandidatePaths[i] \in Range(code_paths)}
            IN  IF hits # {}
                   THEN FallbackCandidatePaths[CHOOSE i \in hits : \A j \in hits : i <= j]
                   ELSE IF code_paths # <<>> THEN code_paths[1] ELSE NoPath

\* repair_agent.py 52-68: _fallback_patch_requests
FallbackPatchRequests(code_paths, failures) ==
    LET selected == [i \in 1..Len(failures) |->
                        [path |-> SelectFallbackPathIn(code_paths, failures[i]),
                         failure |-> failures[i]]]
        Found(entry) == entry.path # NoPath
    IN  RequestsByPath(SelectSeq(selected, Found), FALLBACK_REASON)

\* repair_agent.py 70-85: _merge_patch_requests; the key of a request is all of it
MergePatchRequests(first, second) == DistinctInOrder(first \o second)

\* repair_agent.py 130-141: build_repair_requests, the requests themselves
BuildRepairRequestList(code_paths, report) ==
    MergePatchRequests(report.patch_requests,
                       FallbackPatchRequests(code_paths, report.failures))

\* implementer_agent.py 233-242: patch_by_path, a later request for a path replaces
\* an earlier one
PatchByPath(code_paths, patch_requests) ==
    LET Target(i) == SanitizeRelativePath(patch_requests[i].path)
        kept == {i \in 1..Len(patch_requests) :
                    /\ Target(i) # NoPath
                    /\ Target(i) \in Range(code_paths)
                    /\ \A j \in (i + 1)..Len(patch_requests) : Target(j) # Target(i)}
    IN  {[path |-> Target(i), reason |-> patch_requests[i].reason,
          instructions |-> patch_requests[i].instructions] : i \in kept}

RepairRequestsInit ==
    /\ PipelineParked
    /\ SandboxHostEmpty
    /\ fn_pc = "called"
    /\ \E code_paths \in RepairCodePaths, failures \in FailureLists :
          /\ \E i \in 1..Len(failures) : Blocking(failures[i])
          /\ fn_input = [fn |-> "targeted_pass", code_paths |-> code_paths,
                         report |-> [passed |-> FALSE, failures |-> failures,
                                     patch_requests |->
                                         TestRunnerBuildPatchRequests(failures)]]
    /\ fn_output = [fn |-> "none"]

\* repair_agent.py 212-227: the requests of a targeted pass, up to what patch_files
\* hands to _patch_file_content
RepairRequestsReturn ==
    /\ fn_pc = "called"
    /\ fn_input.fn = "targeted_pass"
    /\ LET patch_requests == BuildRepairRequestList(fn_input.code_paths, fn_input.report)
       IN  fn_output' = [fn |-> "targeted_pass",
                         patch_requests |-> patch_requests,
                         patch_by_path |-> PatchByPath(fn_input.code_paths, patch_requests)]
    /\ fn_pc' = "returned"
    /\ UNCHANGED <<pipelineVars, sandboxVars, fn_input>>

RepairRequestsSpec == RepairRequestsInit /\ [][RepairRequestsReturn]_vars

\* C27: in a targeted repair pass whose report carries patch requests of the test
\* runner, the requests handed to patch_files are those, and the request patch_files
\* applies to a file has the test runner's reason and instructions; requests are
\* synthesized from the failures only when the test runner emitted none.
C27_RunnerRequestsApplied ==
    (fn_pc = "returned" /\ fn_output.fn = "targeted_pass") =>
        IF fn_input.report.patch_requests # <<>>
           THEN /\ fn_output.patch_requests = fn_input.report.patch_requests
                /\ fn_output.patch_by_path \subseteq Range(fn_input.report.patch_requests)
           ELSE fn_output.patch_requests =
                    FallbackPatchRequests(fn_input.code_paths, fn_input.report.failures)

\* ---------------------------------------------------------------------------
\* The deterministic validator, code_validator.py, on a bundle of two files:
\* app/service.py, which defines (or not) a function list_todos, and app/routes.py,
\* which imports it (or not) and calls it.  A file is what ast.parse makes of it: the
\* import, the signature, the calls with their line and their keywords.  The bundle has
\* no class, no Field( call, no router, no EmailStr and no create_all, so that the
\* checks at 246-299, 321-471 and 527-559 report nothing.

NoName == "-"

\* **mapping in a call: ast.keyword with arg None
UNPACKED == "**"

\* def list_todos(...): the parameters by kind (ast.arguments)
Signatures ==
    {[posonlyargs |-> <<>>, args |-> <<>>, vararg |-> NoName,
      kwonlyargs |-> <<"db", "due_before">>, kwarg |-> NoName],
     [posonlyargs |-> <<>>, args |-> <<"session", "db">>, vararg |-> NoName,
      kwonlyargs |-> <<>>, kwarg |-> NoName],
     [posonlyargs |-> <<"db">>, args |-> <<"due_before">>, vararg |-> NoName,
      kwonlyargs |-> <<>>, kwarg |-> NoName],
     [posonlyargs |-> <<>>, args |-> <<>>, vararg |-> "session",
      kwonlyargs |-> <<"db">>, kwarg |-> NoName],
     [posonlyargs |-> <<>>, args |-> <<"db">>, vararg |-> NoName,
      kwonlyargs |-> <<>>, kwarg |-> "filters"]}

\* app/service.py: list_todos defined by a def, bound by an assignment, or missing
ServiceModules ==
    {[defines |-> "function", signature |-> s] : s \in Signatures}
        \cup {[defines |-> "assignment"], [defines |-> "nothing"]}

\* app/routes.py imports: `from app import service`, `from app.service import
\* list_todos`, or neither
ImportForms == {"module", "symbol", "none"}

KeywordLists ==
    {<<>>, <<"db">>, <<"session">>, <<"session", "due_date_before">>,
     <<"due_date_before", "session">>, <<"db", UNPACKED>>}

CallLines == {4, 9}

MaxCalls == 2

CallLists ==
    UNION {[1..n -> [line_number : CallLines, keywords : KeywordLists]] : n \in 1..MaxCalls}

\* the order of sorted() on the keyword names drawn
KeywordOrder == <<"db", "due_before", "due_date_before", "filters", "session">>

Sorted(names) ==
    LET In(name) == name \in names
    IN  SelectSeq(KeywordOrder, In)

\* A signature whose **kwargs is not seen.
NoVarKeyword(signature) == FALSE

\* code_validator.py 129: accepts_var_keyword
AcceptsVarKeyword(signature) == signature.kwarg # NoName

\* code_validator.py 115-124: keyword_params
KeywordParams(signature) ==
    Range(signature.posonlyargs) \cup Range(signature.args) \cup Range(signature.kwonlyargs)
        \cup (IF signature.vararg # NoName THEN {signature.vararg} ELSE {})

\* code_validator.py 80-85: the names app/service.py exports
ServiceExports(service) == IF service.defines = "nothing" THEN {} ELSE {"list_todos"}

ValidatorFailure(message, line_number) ==
    [check |-> "import_smoke", message |-> message, file_path |-> ROUTES_PY,
     line_number |-> line_number]

\* code_validator.py 222-237: `from app.service import list_todos`, at line 1
ImportFailures(import_form, service) ==
    IF import_form = "symbol" /\ "list_todos" \notin ServiceExports(service)
       THEN <<ValidatorFailure([kind |-> "imported_symbol_missing",
                                callee |-> "app.service.list_todos", keywords |-> <<>>], 1)>>
       ELSE <<>>

\* code_validator.py 473-525: the check of one call
CallFailures(import_form, service, call) ==
    IF import_form = "none"
       THEN <<>>
       ELSE IF service.defines # "function"
               THEN IF "list_todos" \notin ServiceExports(service)
                       THEN <<ValidatorFailure([kind |-> "call_missing_symbol",
                                                callee |-> "app.service.list_todos",
                                                keywords |-> <<>>], call.line_number)>>
                       ELSE <<>>
               ELSE IF AcceptsVarKeyword(service.signature)
                       THEN <<>>
                       ELSE LET invalid_keywords ==
                                    Sorted({call.keywords[k] : k \in 1..Len(call.keywords)}
                                               \ ({UNPACKED} \cup KeywordParams(service.signature)))
                            IN  IF invalid_keywords # <<>>
                                   THEN <<ValidatorFailure(
                                            [kind |-> "unsupported_keywords",
                                             callee |-> "app.service.list_todos",
                                             keywords |-> invalid_keywords],
                                            call.line_number)>>
                                   ELSE <<>>

\* code_validator.py 300-316: service.list_todos as an attribute of a module alias
AttributeFailures(import_form, service, call) ==
    IF import_form = "module" /\ "list_todos" \notin ServiceExports(service)
       THEN <<ValidatorFailure([kind |-> "attribute_missing_symbol",
                                callee |-> "app.service.list_todos", keywords |-> <<>>],
                               call.line_number)>>
       ELSE <<>>

RECURSIVE Flatten(_)
Flatten(lists) == IF lists = <<>> THEN <<>> ELSE Head(lists) \o Flatten(Tail(lists))

RECURSIVE DedupeFailures(_, _)
\* code_validator.py 561-568: the first failure of each (file_path, message,
\* line_number)
DedupeFailures(failures, seen) ==
    IF failures = <<>>
       THEN <<>>
       ELSE LET failure == Head(failures)
                key == <<failure.file_path, failure.message, failure.line_number>>
            IN  IF key \in seen
                   THEN DedupeFailures(Tail(failures), seen)
                   ELSE <<failure>> \o DedupeFailures(Tail(failures), seen \cup {key})

VALIDATOR_REASON ==
    "Deterministic validator found unresolved imports or incompatible function contracts"

\* code_validator.py 167-182: _validator_patch_requests
ValidatorPatchRequests(failures) ==
    LET Located(failure) == StripWhitespace(failure.file_path) # <<>>
        located == SelectSeq(failures, Located)
        paths == DistinctInOrder([i \in 1..Len(located) |->
                                     StripWhitespace(located[i].file_path)])
    IN  [k \in 1..Len(paths) |->
            LET At(failure) == StripWhitespace(failure.file_path) = paths[k]
                own == SelectSeq(located, At)
            IN  [path |-> paths[k], reason |-> VALIDATOR_REASON,
                 instructions |-> [i \in 1..Len(own) |-> own[i].message]]]

\* code_validator.py 185-576: validate_generated_backend; ast.walk reaches the calls
\* of the statements before the attributes inside them
ValidateGeneratedBackend(import_form, service, calls) ==
    LET found == ImportFailures(import_form, service)
                 \o Flatten([i \in 1..Len(calls) |->
                                CallFailures(import_form, service, calls[i])])
                 \o Flatten([i \in 1..Len(calls) |->
                                AttributeFailures(import_form, service, calls[i])])
        deduped == DedupeFailures(found, {})
    IN  [passed |-> deduped = <<>>, failures |-> deduped,
         patch_requests |-> ValidatorPatchRequests(deduped)]

ValidateInit ==
    /\ PipelineParked
    /\ SandboxHostEmpty
    /\ fn_pc = "called"
    /\ \E import_form \in ImportForms, service \in ServiceModules, calls \in CallLists :
          fn_input = [fn |-> "validate", import_form |-> import_form,
                      service |-> service, calls |-> calls]
    /\ fn_output = [fn |-> "none"]

\* reviewer_agent.py 85: the validator runs on the bundle under review
ValidateReturn ==
    /\ fn_pc = "called"
    /\ fn_input.fn = "validate"
    /\ fn_output' = [fn |-> "validate",
                     report |-> ValidateGeneratedBackend(fn_input.import_form,
                                                         fn_input.service, fn_input.calls)]
    /\ fn_pc' = "returned"
    /\ UNCHANGED <<pipelineVars, sandboxVars, fn_input>>

ValidateSpec == ValidateInit /\ [][ValidateReturn]_vars

Validated == fn_pc = "returned" /\ fn_output.fn = "validate"

\* C28: the validator emits exactly one patch request for each file that has a
\* failure, and the instructions of the request hold each distinct failure message of
\* that file exactly once, also when one message is reported at several lines.
C28_OneRequestPerFileDistinctMessages ==
    Validated =>
        LET failures == fn_output.report.failures
            requests == fn_output.report.patch_requests
            FailingFiles == {failures[i].file_path : i \in 1..Len(failures)}
            MessagesOf(path) ==
                {failures[i].message : i \in {j \in 1..Len(failures) : failures[j].file_path = path}}
        IN  /\ {requests[k].path : k \in 1..Len(requests)} = FailingFiles
            /\ \A k, l \in 1..Len(requests) : requests[k].path = requests[l].path => k = l
            /\ \A k \in 1..Len(requests) :
                  /\ Range(requests[k].instructions) = MessagesOf(requests[k].path)
                  /\ \A i, j \in 1..Len(requests[k].instructions) :
                        requests[k].instructions[i] = requests[k].instructions[j] => i = j

\* The callee of the calls is a function defined in a local module.
CalleeResolves ==
    fn_input.import_form \in {"module", "symbol"} /\ fn_input.service.defines = "function"

\* The parameters the callee declares, its **kwargs aside.
DeclaredParameters(signature) ==
    {name \in Range(KeywordOrder) :
        \/ \E k \in 1..Len(signature.posonlyargs) : signature.posonlyargs[k] = name
        \/ \E k \in 1..Len(signature.args) : signature.args[k] = name
        \/ \E k \in 1..Len(signature.kwonlyargs) : signature.kwonlyargs[k] = name
        \/ signature.vararg = name}

\* The keywords of a call that the callee does not declare.
UndeclaredKeywords(call) ==
    {name \in Range(call.keywords) :
        name # UNPACKED /\ name \notin DeclaredParameters(fn_input.service.signature)}

\* C29: for every call whose callee resolves to a function defined in a local module,
\* the validator reports an unsupported-keyword failure on the calling file, at the
\* line of the call and naming the keywords, if and only if the call passes a keyword
\* the callee does not declare and the callee has no **kwargs parameter.
C29_UndeclaredKeywordReported ==
    (Validated /\ CalleeResolves) =>
        \A i \in 1..Len(fn_input.calls) :
            LET call == fn_input.calls[i]
                failures == fn_output.report.failures
                reported ==
                    \E k \in 1..Len(failures) :
                        /\ failures[k].file_path = ROUTES_PY
                        /\ failures[k].line_number = call.line_number
                        /\ failures[k].message.kind = "unsupported_keywords"
                        /\ Range(failures[k].message.keywords) = UndeclaredKeywords(call)
            IN  reported <=>
                    (UndeclaredKeywords(call) # {} /\ fn_input.service.signature.kwarg = NoName)

\* Two calls of one function at one line, the first with two undeclared keywords
\* and reported, the second with declared keywords only.
C29_Witness ==
    /\ Validated
    /\ CalleeResolves
    /\ Len(fn_input.calls) = 2
    /\ fn_input.calls[1].line_number = fn_input.calls[2].line_number
    /\ UndeclaredKeywords(fn_input.calls[1]) = {"session", "due_date_before"}
    /\ UndeclaredKeywords(fn_input.calls[2]) = {}
    /\ ~fn_output.report.passed

\* The implementer has returned the bundle it generated.
Generated == fn_output.fn = "bundle" /\ fn_input.fn = "generate" /\ fn_pc = "reviewer"

\* C30: a plan call of the LLM that fails does not fail the generation: the bundle is
\* the one of the deterministic default plan; and the bundle generated from any plan,
\* the LLM's or the default one, has app/main.py, app/database.py, app/models.py,
\* app/schemas.py and app/routes.py.
C30_PlanFallbackAndRequiredFiles ==
    Generated =>
        /\ Range(RequiredPathList) \subseteq Range(FilePaths(fn_output.code))
        /\ fn_input.plan_raised =>
              /\ FilePaths(fn_output.code) = FallbackPlan(fn_input.auth_required).files
              /\ fn_output.code.dependencies =
                     FallbackPlan(fn_input.auth_required).dependencies

\* The plan call failed for an architecture that needs authentication, and the
\* bundle has the six files of the default plan.
C30_Witness ==
    /\ Generated
    /\ fn_input.plan_raised
    /\ fn_input.auth_required
    /\ Len(fn_output.code.files) = Len(RequiredPathList) + 1

(***************************************************************************)
(* _launch_project_sandbox step by step.  The deploy handlers run on the   *)
(* thread pool, so a launch of a handler interleaves with the launch of a  *)
(* pipeline run between any two of its file and docker operations.         *)
(***************************************************************************)
\* sandbox.py 138-141: _delete_runtime_info
DeleteRuntimeInfo(infos, project) == [infos EXCEPT ![project] = NoRuntimeInfo]

\* sandbox.py 1626-1632: the container name is chosen, the project's old container
\* is removed and a port is allocated; the HTTPException of 256 ends the launch.
LaunchAllocate(w) ==
    /\ deployments[w].pc = "bundle_written"
    /\ LET p == deployments[w].project
           container_name == launches + 1
           stopped == StopProjectSandbox(containers, runtime_infos[p], p)
           cleared == {c \in stopped : c.name # container_name}
           bound == BoundPorts(cleared, host_ports)
           allocated == AllocateSandboxPort(runtime_infos[p], runtime_infos, bound)
       IN  /\ containers' = cleared
           /\ IF allocated.ok
                 THEN /\ allocation' = [project |-> p, port |-> allocated.port,
                                        reused |-> allocated.reused, bound |-> bound]
                      /\ deployments' = [deployments EXCEPT ![w] =
                            [pc |-> "allocated", project |-> p,
                             container_name |-> container_name,
                             port |-> allocated.port]]
                 ELSE /\ UNCHANGED allocation
                      /\ deployments' = [deployments EXCEPT ![w] =
                            [pc |-> "raised", project |-> p,
                             container_name |-> container_name, port |-> 0]]
    /\ launches' = launches + 1
    /\ UNCHANGED <<pipelineVars, fnVars, runtime_infos, host_ports, host_dirs>>

\* sandbox.py 1634-1642: the runtime info with the allocated port is written before
\* the container is started
LaunchWriteRuntimeInfo(w) ==
    /\ deployments[w].pc = "allocated"
    /\ runtime_infos' = [runtime_infos EXCEPT ![deployments[w].project] =
          [present |-> TRUE, container_name |-> deployments[w].container_name,
           port |-> deployments[w].port]]
    /\ deployments' = [deployments EXCEPT ![w].pc = "info_written"]
    /\ UNCHANGED <<pipelineVars, fnVars, containers, host_ports, host_dirs,
                   allocation, launches>>

\* sandbox.py 1644-1662: docker run -d -p port:9000; docker refuses a host port that
\* is bound, and the start may fail for any other reason.  The retry of 1660-1662 is
\* for a container name that is taken, which a new random name never is.
LaunchDockerRun(w) ==
    /\ deployments[w].pc = "info_written"
    /\ \E started \in BOOLEAN :
          /\ started => deployments[w].port \notin BoundPorts(containers, host_ports)
          /\ IF started
                THEN /\ containers' = containers \cup
                           {[name |-> deployments[w].container_name,
                             project |-> deployments[w].project,
                             port |-> deployments[w].port,
                             bundle |-> host_dirs[deployments[w].project],
                             launched_by |-> w]}
                     /\ deployments' = [deployments EXCEPT ![w].pc = "started"]
                ELSE /\ UNCHANGED containers
                     /\ deployments' = [deployments EXCEPT ![w].pc = "start_failed"]
    /\ UNCHANGED <<pipelineVars, fnVars, runtime_infos, host_ports, host_dirs,
                   allocation, launches>>

\* sandbox.py 1663-1670: a failed start deletes the runtime info and raises; a
\* started container is recorded in the runtime info
LaunchFinish(w) ==
    /\ deployments[w].pc \in {"started", "start_failed"}
    /\ IF deployments[w].pc = "start_failed"
          THEN /\ runtime_infos' = DeleteRuntimeInfo(runtime_infos, deployments[w].project)
               /\ deployments' = [deployments EXCEPT ![w].pc = "raised"]
          ELSE /\ runtime_infos' = [runtime_infos EXCEPT ![deployments[w].project] =
                     [present |-> TRUE,
                      container_name |-> deployments[w].container_name,
                      port |-> deployments[w].port]]
               /\ deployments' = [deployments EXCEPT ![w].pc = "launched"]
    /\ UNCHANGED <<pipelineVars, fnVars, containers, host_ports, host_dirs,
                   allocation, launches>>

\* The caller of the launch has its result: the launch returned or raised.
LaunchReturn(w) ==
    /\ deployments[w].pc \in {"launched", "raised"}
    /\ deployments' = [deployments EXCEPT ![w] = [pc |-> "idle", project |-> "none"]]
    /\ UNCHANGED <<pipelineVars, fnVars, runtime_infos, containers, host_ports,
                   host_dirs, allocation, launches>>

LaunchRaceNext ==
    \/ \E w \in Workers, p \in Projects : WriteSandboxBundle(w, p)
    \/ \E w \in Workers : LaunchAllocate(w)
    \/ \E w \in Workers : LaunchWriteRuntimeInfo(w)
    \/ \E w \in Workers : LaunchDockerRun(w)
    \/ \E w \in Workers : LaunchFinish(w)
    \/ \E w \in Workers : LaunchReturn(w)
    \/ \E port \in HostPortChoices : HostBindsPort(port)

LaunchRaceSpec == SandboxInit /\ [][LaunchRaceNext]_vars

\* The launches that are between their port allocation and their return.
LaunchesWithPort ==
    {w \in Workers : deployments[w].pc \in
        {"allocated", "info_written", "started", "start_failed", "launched", "raised"}}

\* Launches of two projects that chose one port.
RacedLaunches ==
    {pair \in LaunchesWithPort \X LaunchesWithPort :
        /\ deployments[pair[1]].project # deployments[pair[2]].project
        /\ deployments[pair[1]].port = deployments[pair[2]].port
        /\ deployments[pair[1]].port # 0}

\* No launch is under way.
LaunchesFinished == \A w \in Workers : deployments[w].pc = "idle"

\* C31: of two launches for different projects that chose the same host port at
\* most one starts its container and returns; a launch that raised has left no
\* runtime info of its own behind; and when no launch is under way, no two projects
\* have runtime infos with the same port.
C31_PortRaceHasOneWinner ==
    /\ \A pair \in RacedLaunches :
          ~ /\ deployments[pair[1]].pc \in {"started", "launched"}
            /\ deployments[pair[2]].pc \in {"started", "launched"}
    /\ \A w \in Workers :
          deployments[w].pc = "raised" =>
              ~ /\ runtime_infos[deployments[w].project].present
                /\ runtime_infos[deployments[w].project].container_name
                      = deployments[w].container_name
    /\ LaunchesFinished =>
          \A p, q \in Projects :
              (p # q /\ runtime_infos[p].present /\ runtime_infos[q].present)
                  => runtime_infos[p].port # runtime_infos[q].port

\* ---------------------------------------------------------------------------
\* TestRunner.run as data: the syntax check's failures, what the sandbox host and
\* the container answer during the live check, the report, and the patch requests
\* the repair loop builds from the report.

SLASH == <<"/">>

HEALTH == <<"/", "h", "e", "a", "l", "t", "h">>

READY == <<"/", "r", "e", "a", "d", "y">>

TODOS == <<"/", "t", "o", "d", "o", "s">>

\* A path with white space after it, and the empty key.
HEALTH_PADDED == HEALTH \o <<" ">>

EMPTY_KEY == <<>>

\* The keys `paths` of an OpenAPI document may have.
OpenapiPathKeys == {SLASH, HEALTH, READY, TODOS, HEALTH_PADDED, EMPTY_KEY}

\* What the container answers to a probe: a status class, or no answer at all (a
\* connection that is reset raises URLError as a refused one does).
ProbeResults == {"2xx", "4xx", "5xx", "refused", "timed_out"}

ConnectionFailures == {"refused", "timed_out"}

\* A path item: its operation under one of the probed methods and the answer the
\* probe of it gets; method "none" is a path item without such an operation.
PathItems ==
    {[method |-> "none", result |-> "2xx"]} \cup
    [method : {"get"}, result : ProbeResults]

\* Entries of `paths` in one document.
MaxPaths == 2

\* dict items in insertion order: no key twice
PathLists(max_paths) ==
    {paths \in UNION {[1..n -> [path : OpenapiPathKeys, item : PathItems]] : n \in 0..max_paths} :
        \A i, j \in 1..Len(paths) : paths[i].path = paths[j].path => i = j}

\* The JSON value /openapi.json decodes to, with at most max_paths entries in paths.
OpenapiDocuments(max_paths) ==
    {[is_dict |-> FALSE, has_paths |-> FALSE, paths_is_dict |-> FALSE, paths |-> <<>>],
     [is_dict |-> TRUE, has_paths |-> FALSE, paths_is_dict |-> FALSE, paths |-> <<>>],
     [is_dict |-> TRUE, has_paths |-> TRUE, paths_is_dict |-> FALSE, paths |-> <<>>]} \cup
    {[is_dict |-> TRUE, has_paths |-> TRUE, paths_is_dict |-> TRUE, paths |-> paths] :
        paths \in PathLists(max_paths)}

FallbackShellPaths == {SLASH, HEALTH, READY}

\* A classification by the keys as they are written.
OpenapiKeysAsWritten(spec) ==
    \/ ~spec.is_dict
    \/ ~spec.has_paths
    \/ ~spec.paths_is_dict
    \/ \A i \in 1..Len(spec.paths) : spec.paths[i].path \in FallbackShellPaths

\* sandbox.py 216-227: _openapi_looks_like_fallback
OpenapiLooksLikeFallback(spec) ==
    IF ~spec.is_dict
       THEN TRUE
       ELSE IF ~(spec.has_paths /\ spec.paths_is_dict)
               THEN TRUE
               ELSE LET Meaningful(entry) ==
                            /\ StripWhitespace(entry.path) # <<>>
                            /\ StripWhitespace(entry.path) \notin FallbackShellPaths
                        meaningful_paths == SelectSeq(spec.paths, Meaningful)
                    IN  Len(meaningful_paths) = 0

\* test_runner.py 154-155, 191-193
MAX_PROBES == 12

\* A TestFailure; artifacts.py 113-118 gives the defaults of file_path, line_number
\* and patchable.
NewTestFailure(check, text, detail) ==
    [check |-> check, message |-> [text |-> text, detail |-> detail, appended |-> {}],
     file_path |-> NoPath, line_number |-> 0, patchable |-> TRUE]

AppendToMessage(failure, what) ==
    [failure EXCEPT !.message.appended = @ \cup {what}]

RECURSIVE ProbeRoutes(_, _, _)
\* test_runner.py 154-193: the probes, one for each operation of a probed method
\* until MAX_PROBES were made
ProbeRoutes(paths, checked, failures) ==
    IF paths = <<>> \/ checked >= MAX_PROBES
       THEN failures
       ELSE LET entry == Head(paths)
            IN  IF entry.item.method = "none"
                   THEN ProbeRoutes(Tail(paths), checked, failures)
                   ELSE ProbeRoutes(Tail(paths), checked + 1,
                           IF entry.item.result = "5xx"
                              THEN Append(failures,
                                      AppendToMessage(
                                          NewTestFailure("endpoint_smoke",
                                              "returned 500 Internal Server Error in the sandbox.",
                                              <<entry.item.method, entry.path>>),
                                          "response"))
                              ELSE failures)

\* test_runner.py 71-197: TestRunner._live_sandbox_check
LiveSandboxCheck(in) ==
    IF in.project = "invalid"
       THEN [failures |-> <<>>,
             warnings |-> <<"Skipping live sandbox check because project_id is invalid">>]
    ELSE IF in.launch # "launched"
       THEN [failures |-> <<NewTestFailure("import_smoke",
                                 "Failed to launch sandbox container", in.launch)>>,
             warnings |-> <<>>]
    ELSE IF ~in.is_ready
       THEN LET failure == NewTestFailure("import_smoke",
                               "Sandbox container crashed or timed out during startup.", "")
            IN  [failures |-> <<IF in.logs THEN AppendToMessage(failure, "container_logs")
                                          ELSE failure>>,
                 warnings |-> <<>>]
    ELSE IF ~in.port_known
       THEN [failures |-> <<>>, warnings |-> <<"Sandbox is live but port is unknown">>]
    ELSE IF in.openapi # "document"
       THEN [failures |-> <<NewTestFailure("endpoint_smoke", "/openapi.json", in.openapi)>>,
             warnings |-> <<>>]
    ELSE IF OpenapiLooksLikeFallback(in.document)
       THEN [failures |->
                <<[NewTestFailure("endpoint_smoke",
                       "Live sandbox started a fallback shell app because generated API routes failed to load.",
                       "")
                   EXCEPT !.file_path = ROUTES_PY, !.line_number = 1]>>,
             warnings |-> <<>>]
    ELSE LET failures == ProbeRoutes(in.document.paths, 0, <<>>)
         IN  [failures |->
                 IF failures # <<>> /\ in.logs
                    THEN <<AppendToMessage(failures[1], "sandbox_logs")>> \o Tail(failures)
                    ELSE failures,
              warnings |-> <<>>]

\* test_runner.py 42-68: the last file of the bundle does not compile
SyntaxFailure(code_paths) ==
    [NewTestFailure("syntax", "invalid syntax", "")
        EXCEPT !.file_path = code_paths[Len(code_paths)], !.line_number = 7]

\* test_runner.py 493-512: TestRunner.run
TestRunnerRun(in) ==
    LET syntax == IF in.compiles THEN <<>> ELSE <<SyntaxFailure(in.code_paths)>>
        live == in.project # "none" /\ MAIN_PY \in Range(in.code_paths)
        runtime == IF live THEN LiveSandboxCheck(in)
                           ELSE [failures |-> <<>>, warnings |-> <<>>]
        failures == syntax \o runtime.failures
    IN  [passed |-> SelectSeq(failures, Blocking) = <<>>,
         checks_run |-> IF live THEN <<"syntax", "import_smoke", "endpoint_smoke">>
                                ELSE <<"syntax">>,
         failures |-> failures,
         warnings |-> runtime.warnings,
         patch_requests |-> TestRunnerBuildPatchRequests(failures)]

EvaluateCodePaths == {RequiredPathList, <<DATABASE_PY, MAIN_PY>>, <<ROUTES_PY, MODELS_PY>>}

\* The bundles the live check runs on.
LiveCodePaths == {code_paths \in EvaluateCodePaths : MAIN_PY \in Range(code_paths)}

\* An evaluation whose live check, if it runs, gets a document that is no object.
PlainInput(compiles, project, code_paths) ==
    [compiles |-> compiles, project |-> project, code_paths |-> code_paths,
     launch |-> "launched", is_ready |-> TRUE, logs |-> FALSE, port_known |-> TRUE,
     openapi |-> "document",
     document |-> [is_dict |-> FALSE, has_paths |-> FALSE, paths_is_dict |-> FALSE,
                   paths |-> <<>>]]

\* What the host and the container can answer; an answer that is never asked for
\* has one value.
EvaluateInputs(max_paths) ==
    LET LiveInputs == {PlainInput(compiles, "valid", code_paths) :
                          compiles \in BOOLEAN, code_paths \in LiveCodePaths}
        Launched == {[in EXCEPT !.logs = logs] : in \in LiveInputs, logs \in BOOLEAN}
    IN  {PlainInput(compiles, project, code_paths) :
            compiles \in BOOLEAN, project \in {"none", "invalid", "valid"},
            code_paths \in EvaluateCodePaths}
        \cup {[in EXCEPT !.launch = launch] :
                 in \in LiveInputs, launch \in {"cli_missing", "no_free_port", "start_failed"}}
        \cup {[in EXCEPT !.is_ready = FALSE] : in \in Launched}
        \cup {[in EXCEPT !.port_known = FALSE] : in \in Launched}
        \cup {[in EXCEPT !.openapi = openapi] :
                 in \in Launched, openapi \in {"status_not_200", "bad_json", "fetch_failed"}}
        \cup {[in EXCEPT !.document = document] :
                 in \in Launched, document \in OpenapiDocuments(max_paths)}

EvaluateInit ==
    /\ PipelineParked
    /\ SandboxHostEmpty
    /\ fn_pc = "called"
    /\ \E in \in EvaluateInputs(MaxPaths) : fn_input = [fn |-> "evaluate", in |-> in]
    /\ fn_output = [fn |-> "none"]

\* repair_agent.py 87-88, 212: the evaluation of a bundle and the requests the
\* repair loop builds from its report
EvaluateReturn ==
    /\ fn_pc = "called"
    /\ fn_input.fn = "evaluate"
    /\ LET report == TestRunnerRun(fn_input.in)
       IN  fn_output' = [fn |-> "evaluate", report |-> report,
                         repair_requests |->
                             BuildRepairRequestList(fn_input.in.code_paths, report)]
    /\ fn_pc' = "returned"
    /\ UNCHANGED <<pipelineVars, sandboxVars, fn_input>>

EvaluateSpec == EvaluateInit /\ [][EvaluateReturn]_vars

\* The evaluation has returned its report.
Evaluated == fn_pc = "returned" /\ fn_output.fn = "evaluate"

\* The live check got as far as probing the routes of the document.
RoutesProbed ==
    /\ Evaluated
    /\ fn_input.in.project = "valid"
    /\ MAIN_PY \in Range(fn_input.in.code_paths)
    /\ fn_input.in.launch = "launched"
    /\ fn_input.in.is_ready
    /\ fn_input.in.port_known
    /\ fn_input.in.openapi = "document"
    /\ ~OpenapiLooksLikeFallback(fn_input.in.document)

\* A probe that got HTTP 5xx or no answer.
FailedProbes ==
    {i \in 1..Len(fn_input.in.document.paths) :
        /\ fn_input.in.document.paths[i].item.method # "none"
        /\ fn_input.in.document.paths[i].item.result \in {"5xx"} \cup ConnectionFailures}

\* C32: every probed route whose request returns HTTP 5xx or fails at connection
\* level (refused, reset, timed out) has a patchable endpoint_smoke failure in the
\* report, and the report of an evaluation with such a route does not pass.
C32_FailedProbeFailsEvaluation ==
    RoutesProbed =>
        \A i \in FailedProbes :
            /\ \E k \in 1..Len(fn_output.report.failures) :
                  /\ fn_output.report.failures[k].check = "endpoint_smoke"
                  /\ fn_output.report.failures[k].patchable
                  /\ fn_output.report.failures[k].message.detail =
                        <<fn_input.in.document.paths[i].item.method,
                          fn_input.in.document.paths[i].path>>
            /\ ~fn_output.report.passed

\* The live check was started and the sandbox did not come up.
SandboxUnavailable ==
    /\ Evaluated
    /\ fn_input.in.project = "valid"
    /\ MAIN_PY \in Range(fn_input.in.code_paths)
    /\ fn_input.in.launch # "launched" \/ ~fn_input.in.is_ready

\* C33: when the sandbox cannot be launched (container CLI missing, no free port,
\* container start failing) or does not become ready, the evaluation returns a report
\* with an import_smoke failure for it, the report does not pass, and the requests the
\* repair loop builds from the report have one with the instruction to fix that failure.
C33_UnavailableSandboxIsRepaired ==
    SandboxUnavailable =>
        /\ ~fn_output.report.passed
        /\ \E k \in 1..Len(fn_output.report.failures) :
              LET failure == fn_output.report.failures[k]
              IN  /\ failure.check = "import_smoke"
                  /\ Blocking(failure)
                  /\ \E r \in 1..Len(fn_output.repair_requests) :
                        /\ FixInstruction(failure)
                              \in Range(fn_output.repair_requests[r].instructions)
                        /\ fn_output.repair_requests[r].path \in Range(fn_input.in.code_paths)

\* No port was free for the sandbox of a bundle that compiles and has no app/routes.py:
\* the one request of the repair loop is for app/main.py.
C33_Witness ==
    /\ SandboxUnavailable
    /\ fn_input.in.launch = "no_free_port"
    /\ fn_input.in.compiles
    /\ Len(fn_output.repair_requests) = 1
    /\ fn_output.repair_requests[1].path = MAIN_PY
    /\ fn_output.repair_requests[1].reason = FALLBACK_REASON

\* The live check fetched and decoded /openapi.json.
DocumentServed ==
    /\ Evaluated
    /\ fn_input.in.project = "valid"
    /\ MAIN_PY \in Range(fn_input.in.code_paths)
    /\ fn_input.in.launch = "launched"
    /\ fn_input.in.is_ready
    /\ fn_input.in.port_known
    /\ fn_input.in.openapi = "document"

\* The report has the failure of a fallback app and does not pass.
FallbackReported ==
    /\ ~fn_output.report.passed
    /\ \E k \in 1..Len(fn_output.report.failures) :
          /\ fn_output.report.failures[k].check = "endpoint_smoke"
          /\ fn_output.report.failures[k].file_path = ROUTES_PY
          /\ Blocking(fn_output.report.failures[k])

CandidateKinds == {"not_json", "schema_mismatch", "valid"}

\* Candidate texts extracted from one response.
MaxCandidates == 2

\* _structured_text_candidates (llm_client.py 60-105) of the content of a response
CandidateLists == UNION {[1..n -> CandidateKinds] : n \in 0..MaxCandidates}

\* What a call of the provider gives: an exception of the client, a response without
\* choices, or a response whose content has these candidates.
ProviderAnswers ==
    {[kind |-> kind, candidates |-> <<>>] :
        kind \in {"provider_error", "no_choices_field", "zero_choices"}} \cup
    {[kind |-> "content", candidates |-> candidates] : candidates \in CandidateLists}

\* llm_client.py 160-162: attempt_prompts, the prompt and the stricter one
ATTEMPT_PROMPTS == 2

\* llm_client.py 176-219: what one attempt makes of the provider's answer; the value
\* is the candidate returned, or the exception raised
StructuredAttempt(answer) ==
    IF answer.kind = "provider_error"
       THEN [outcome |-> "raised", error |-> "ProviderError", candidate |-> 0]
    ELSE IF answer.kind \in {"no_choices_field", "zero_choices"}
       THEN [outcome |-> "raised", error |-> "ValueError", candidate |-> 0]
    ELSE LET valid == {i \in 1..Len(answer.candidates) : answer.candidates[i] = "valid"}
         IN  IF valid = {}
                THEN [outcome |-> "raised", error |-> "ValueError", candidate |-> 0]
                ELSE [outcome |-> "returned", error |-> "none",
                      candidate |-> CHOOSE i \in valid : \A j \in valid : i <= j]

\* An except clause that takes every exception for a parse failure.
AnyErrorRetried(error) == TRUE

\* llm_client.py 221: except (json.JSONDecodeError, ValidationError, ValueError)
ParseFailure(error) == error = "ValueError"

StructuredInit ==
    /\ PipelineParked
    /\ SandboxHostEmpty
    /\ fn_pc = "requesting"
    /\ \E answers \in [1..ATTEMPT_PROMPTS -> ProviderAnswers] :
          fn_input = [fn |-> "generate_structured", answers |-> answers]
    /\ fn_output = [fn |-> "generate_structured", attempt_idx |-> 1, calls |-> 0,
                    prompts |-> <<>>, candidate |-> 0]

\* llm_client.py 164-236: one pass of the loop over attempt_prompts, from the call of
\* the provider to the return, the raise or the continue
StructuredCall ==
    /\ fn_pc = "requesting"
    /\ fn_input.fn = "generate_structured"
    /\ LET attempt_idx == fn_output.attempt_idx
           made == StructuredAttempt(fn_input.answers[attempt_idx])
           called == [fn_output EXCEPT !.calls = @ + 1,
                                       !.prompts = Append(@, IF attempt_idx > 1
                                                                THEN "retry_instructions"
                                                                ELSE "schema")]
       IN  IF made.outcome = "returned"
              THEN /\ fn_pc' = "returned"
                   /\ fn_output' = [called EXCEPT !.candidate = made.candidate]
              ELSE IF ParseFailure(made.error) /\ attempt_idx < ATTEMPT_PROMPTS
                      THEN /\ fn_pc' = "requesting"
                           /\ fn_output' = [called EXCEPT !.attempt_idx = @ + 1]
                      ELSE /\ fn_pc' = "raised"
                           /\ fn_output' = called
    /\ UNCHANGED <<pipelineVars, sandboxVars, fn_input>>

StructuredSpec == StructuredInit /\ [][StructuredCall]_vars

\* The answer has a candidate that is JSON and fits the schema.
ParsesAndValidates(answer) ==
    answer.kind = "content" /\ "valid" \in Range(answer.candidates)

\* C34: a structured-generation request calls the provider at most twice; the second
\* call has the stricter instruction and is made only after a first response that
\* could not be parsed or validated; the first response that parses and validates is
\* returned, with no call after it; and when neither attempt gives such a response the
\* request ends in an exception.
C34_AtMostOneRetry ==
    fn_input.fn = "generate_structured" =>
        /\ fn_output.calls <= 2
        /\ fn_pc = "requesting" => fn_output.calls < 2
        /\ fn_output.calls = 2 =>
              /\ fn_input.answers[1].kind # "provider_error"
              /\ ~ParsesAndValidates(fn_input.answers[1])
              /\ fn_output.prompts = <<"schema", "retry_instructions">>
        /\ (fn_output.calls >= 1 /\ ParsesAndValidates(fn_input.answers[1])) =>
              /\ fn_pc = "returned"
              /\ fn_output.calls = 1
        /\ fn_pc = "returned" =>
              /\ ParsesAndValidates(fn_input.answers[fn_output.calls])
              /\ fn_input.answers[fn_output.calls].candidates[fn_output.candidate] = "valid"
        /\ (fn_pc \notin {"requesting"}
               /\ \A k \in 1..fn_output.calls : ~ParsesAndValidates(fn_input.answers[k])) =>
              fn_pc = "raised"

\* The first response had a candidate that is no JSON and one that does not fit the
\* schema; the second call returned the second candidate of its response.
C34_Witness ==
    /\ fn_input.fn = "generate_structured"
    /\ fn_pc = "returned"
    /\ fn_output.calls = 2
    /\ fn_input.answers[1].candidates = <<"not_json", "schema_mismatch">>
    /\ fn_output.candidate = 2

\* ---------------------------------------------------------------------------
\* The patch requests patch_files gets from each of its callers, and the requests
\* it regenerates a file for.

\* A text that is white space only.
BLANK_TEXT == [Text("") EXCEPT !.padded = TRUE]

\* What the reviewer LLM writes as one instruction.
LLMInstructions == {Text(""), BLANK_TEXT, Text("Use the session dependency")}

MaxInstructions == 2

\* FilePatchRequest.instructions (artifacts.py 87-90) defaults to the empty list.
LLMInstructionLists == UNION {[1..n -> LLMInstructions] : n \in 0..MaxInstructions}

MaxPatchRequests == 2

\* ReviewReport.patch_requests as the reviewer LLM returns it, when it is not empty.
LLMPatchRequestLists(max_requests) ==
    UNION {[1..n -> [path : {MAIN_PY, ROUTES_PY}, reason : {"Reviewer requested fixes"},
                     instructions : LLMInstructionLists]] : n \in 1..max_requests}

\* Issues of a review: severity, description and file.
ReviewIssueLists ==
    UNION {[1..n -> [severity : {"high"}, description : {Text(""), Text("SQL built by hand")},
                     file_path : {ROUTES_PY, MODELS_PY}]] : n \in 0..2}

SYNTHESIS_REASON == "Reviewer reported issues in this file"

\* orchestrator.py 280-302: the issue map, the targeted paths and the requests made
\* from them when the reviewer sent none; an entry of the issue map is
\* f"[{issue.severity}] {issue.description}"
SynthesizedPatchRequests(affected_paths, issues) ==
    LET Located(issue) == StripWhitespace(issue.file_path) # <<>>
        located == SelectSeq(issues, Located)
        Named(path) == StripWhitespace(path) # <<>>
        targeted_paths ==
            DistinctInOrder(SelectSeq(affected_paths, Named)
                            \o [i \in 1..Len(located) |-> StripWhitespace(located[i].file_path)])
    IN  [k \in 1..Len(targeted_paths) |->
            LET At(issue) == StripWhitespace(issue.file_path) = targeted_paths[k]
                own == SelectSeq(located, At)
            IN  [path |-> targeted_paths[k], reason |-> SYNTHESIS_REASON,
                 instructions |->
                    IF own = <<>>
                       THEN <<Text("Fix the reviewer-reported issues while preserving existing behavior.")>>
                       ELSE [i \in 1..Len(own) |->
                                [text |-> "[severity] description",
                                 severity |-> own[i].severity,
                                 description |-> own[i].description]]]]

ESCALATION_REASON == "Escalated runtime repair after sandbox-backed checks still failed"

\* repair_agent.py 143-186: _build_escalation_patch_requests
EscalationPatchRequests(code_paths, failures, affected_paths) ==
    LET Named(path) == StripWhitespace(path) # <<>>
        affected == SelectSeq(affected_paths, Named)
        selected == DistinctInOrder(
                        SelectSeq([i \in 1..Len(failures) |->
                                      SelectFallbackPathIn(code_paths, failures[i])], Named))
        named == SelectSeq(code_paths, Named)
        target_paths ==
            IF affected # <<>> THEN affected
            ELSE IF selected # <<>> THEN selected
            ELSE SubSeq(named, 1, IF Len(named) < 3 THEN Len(named) ELSE 3)
        instructions ==
            <<Text("Resolve the remaining sandbox startup, container-log, and endpoint smoke failures together.")>>
            \o [i \in 1..Len(failures) |-> [FixInstruction(failures[i]) EXCEPT !.text = "Remaining"]]
    IN  [k \in 1..Len(target_paths) |->
            [path |-> target_paths[k], reason |-> ESCALATION_REASON,
             instructions |-> instructions]]

\* An instruction that is a text of the LLM, not one made by the code from parts.
IsText(instruction) == DOMAIN instruction = {"base", "upper", "padded"}

\* implementer_agent.py 240: [i.strip() for i in instructions if ... and i.strip()]
KeptInstructions(instructions) ==
    LET NotBlank(instruction) == ~(IsText(instruction) /\ instruction.base = "")
        kept == SelectSeq(instructions, NotBlank)
    IN  [i \in 1..Len(kept) |-> IF IsText(kept[i]) THEN Strip(kept[i]) ELSE kept[i]]

\* implementer_agent.py 233-264: the requests patch_files calls _patch_file_content
\* with, one for each file it regenerates
PatchFilesRequests(code_paths, patch_requests) ==
    {[request EXCEPT !.instructions = KeptInstructions(@)] :
        request \in PatchByPath(code_paths, patch_requests)}

\* The callers of patch_files and the requests each of them passes; the reviewer
\* sends at most max_requests of them.
PatchCalls(max_requests) ==
    {[source |-> "reviewer", patch_requests |-> requests] :
        requests \in LLMPatchRequestLists(max_requests)} \cup
    {[source |-> "validator",
      patch_requests |-> ValidateGeneratedBackend(import_form, service, calls).patch_requests] :
        import_form \in ImportForms, service \in ServiceModules, calls \in CallLists} \cup
    {[source |-> "orchestrator",
      patch_requests |-> SynthesizedPatchRequests(affected_paths, issues)] :
        affected_paths \in {<<>>, <<MAIN_PY>>}, issues \in ReviewIssueLists} \cup
    {[source |-> "repair_loop",
      patch_requests |->
          BuildRepairRequestList(RequiredPathList,
              [failures |-> failures,
               patch_requests |-> TestRunnerBuildPatchRequests(failures)])] :
        failures \in FailureLists} \cup
    {[source |-> "escalation",
      patch_requests |-> EscalationPatchRequests(RequiredPathList, failures, affected_paths)] :
        failures \in FailureLists, affected_paths \in {<<>>, <<MAIN_PY>>}}

PatchCallInit ==
    /\ PipelineParked
    /\ SandboxHostEmpty
    /\ fn_pc = "called"
    /\ \E call \in PatchCalls(MaxPatchRequests) :
          /\ call.patch_requests # <<>>
          /\ fn_input = [fn |-> "patch_files", source |-> call.source,
                         code_paths |-> RequiredPathList,
                         patch_requests |-> call.patch_requests]
    /\ fn_output = [fn |-> "none"]

\* implementer_agent.py 204-269: patch_files, called with the requests of a caller
PatchCallReturn ==
    /\ fn_pc = "called"
    /\ fn_input.fn = "patch_files"
    /\ fn_output' = [fn |-> "patch_files",
                     regenerated |-> PatchFilesRequests(fn_input.code_paths,
                                                        fn_input.patch_requests)]
    /\ fn_pc' = "returned"
    /\ UNCHANGED <<pipelineVars, sandboxVars, fn_input>>

PatchCallSpec == PatchCallInit /\ [][PatchCallReturn]_vars

\* C36: every request patch_files regenerates a file for, whoever passed it (the
\* reviewer, the validator, the orchestrator's synthesis, the test runner, the repair
\* loop), has at least one instruction that is not blank.
C36_RegeneratedOnlyWithInstructions ==
    (fn_pc = "returned" /\ fn_output.fn = "patch_files") =>
        \A request \in fn_output.regenerated : request.instructions # <<>>

\* The same for the requests the code builds itself: all callers but the reviewer's
\* own list.
BuiltRequestsHaveInstructions ==
    (fn_pc = "returned" /\ fn_output.fn = "patch_files" /\ fn_input.source # "reviewer") =>
        \A request \in fn_output.regenerated : request.instructions # <<>>

(***************************************************************************)
(* The status of the run record (crud.py 93-100).                          *)
(***************************************************************************)
\* The statuses the run was given, in the order of the updates.
StatusUpdates ==
    SelectSeq(session_ops, LAMBDA o : o.op = "update_status")

\* The updates that gave the run a terminal status.
TerminalUpdates ==
    {i \in 1..Len(StatusUpdates) : StatusUpdates[i].status \in {"completed", "failed"}}

\* One change of the status: pending to running once starting was yielded,
\* running to completed right after the completed event, running to failed
\* right after the error event.
StatusStep ==
    \/ run_status = "pending" /\ run_status' = "running" /\ Emitted("starting")
    \/ run_status = "running" /\ run_status' = "completed" /\ LastEvent = "completed"
    \/ run_status = "running" /\ run_status' = "failed" /\ LastEvent = "error"

ReviewLoopEvents == {"reviewer", "review_pass", "revision"}

ReviewerDonePositions == {i \in 1..Len(events) : events[i] = "reviewer_done"}

\* The run has left the review loop: an event of a later stage was yielded.
LeftReviewLoop ==
    \E i \in 1..Len(events), j \in 1..Len(events) :
        /\ i < j
        /\ events[i] = "reviewer"
        /\ events[j] \notin ReviewLoopEvents

\* C38: every run that reaches the review stage emits exactly one reviewer_done
\* event, however the loop ends (acceptance, nothing to patch, three passes used
\* up, exception), and no reviewer, review_pass or revision event follows it.
C38_ExactlyOneReviewerDone ==
    /\ Cardinality(ReviewerDonePositions) <= 1
    /\ LeftReviewLoop => Cardinality(ReviewerDonePositions) = 1
    /\ (Emitted("reviewer") /\ Exhausted) => Cardinality(ReviewerDonePositions) = 1
    /\ \A i \in ReviewerDonePositions :
          \A j \in (i + 1)..Len(events) : events[j] \notin ReviewLoopEvents
    /\ \A j \in 2..Len(events) :
          (events[j] \notin ReviewLoopEvents /\ events[j - 1] \in ReviewLoopEvents)
             => events[j] = "reviewer_done"

\* The third pass raised after two revisions: the run still has its one reviewer_done.
C38_Witness ==
    /\ Exhausted
    /\ last_pass.exit = "exception"
    /\ last_pass.attempt = MAX_REVIEW_ITERATIONS
    /\ Cardinality(ReviewerDonePositions) = 1

(***************************************************************************)
(* The counters of the report the repair loop returns                      *)
(* (repair_agent.py 188-301).                                              *)
(***************************************************************************)
\* C39: in every RepairReport returned by the repair loop, attempts equals the
\* number of patch_files invocations made by that loop (targeted plus escalation),
\* repaired is true if and only if attempts >= 1, and the number of evaluations
\* performed is attempts + 1.
C39_AttemptsCountPatchCalls ==
    (pc = "repair_returned") =>
        /\ repair_result.attempts = repair_patch_calls
        /\ repair_result.repaired <=> (repair_result.attempts >= 1)
        /\ evaluations = repair_result.attempts + 1

\* A report returned after three targeted passes and one escalation pass.
C39_Witness ==
    /\ pc = "repair_returned"
    /\ repair_result.repaired
    /\ repair_result.attempts = 4
    /\ repair_patch_calls = 4
    /\ evaluations = 5

(***************************************************************************)
(* The completed event of a local_cli run (orchestrator.py 375-388).       *)
(***************************************************************************)
\* The ways the review loop ended.
ReviewLoopExits == {"accepted", "released_as_is", "exhausted", "exception"}

\* C40: in local_cli mode the approved field of the completed event is always true,
\* whatever the outcome of the review loop was (accepted, released as-is after a
\* rejection, iterations exhausted, or reviewer exception).
C40_LocalCliAlwaysApproved ==
    (terminal.status = "completed"
        /\ normalized_runtime_mode(runtime_mode) = Text("local_cli")) =>
        /\ last_pass.exit \in ReviewLoopExits
        /\ terminal.approved
        /\ terminal.runtime_mode = "local_cli"

\* A local_cli run completed as approved although its reviewer raised.
C40_Witness ==
    /\ terminal.status = "completed"
    /\ normalized_runtime_mode(runtime_mode) = Text("local_cli")
    /\ last_pass.exit = "exception"
    /\ terminal.approved

====
